---- MODULE Spec2Model ----
(***************************************************************************)
(* A model of parquet-query: the file collector (fileImport.ts), the       *)
(* statement locator and the workbench handlers (App.tsx), the result      *)
(* formatter (arrow.ts) and the engine latch (duckdb.ts).                  *)
(*                                                                         *)
(* Text is modelled as a sequence of one-character strings, so that        *)
(* lower-casing, suffix tests, trimming, slicing and escaping are computed *)
(* character by character as the code computes them.                       *)
(***************************************************************************)
EXTENDS Integers, Sequences, FiniteSets, TLC

VARIABLES
  \* ---- file collector (fileImport.ts, onPickFolder / onFolderInputChange)
  dirName,      \* name of the picked directory handle
  stack,        \* one frame per active collectFilesFromDirectoryHandle call
  seen,         \* the entries the file system has enumerated so far, in order
  fileList,     \* the flat FileList of the fallback <input webkitdirectory>
  cstatus,      \* "idle" | "walking" | "listing" | "returned" | "threw"
  collected,    \* the {files, meta} handed to importFiles
  \* ---- engine latch (duckdb.ts) and the engine's own state
  statePromise, \* "null" | "pending" | "resolved" | "rejected"
  registered,   \* paths registered as file buffers in the engine
  views,        \* views created in the engine
  \* ---- workbench state (App.tsx, useState)
  dbStatus,     \* "idle" | "loading" | "ready"
  files,        \* the imported file set shown to the user
  folderName,
  parquetTableName,
  error,
  resultInfo,
  importInfo,
  table,
  loadingFiles,
  imp,          \* the importFiles call in flight: its position and locals
  ct,           \* the onCreateTable call in flight
  \* ---- statement locator (App.tsx, statementAtPosition and its caller)
  doc,          \* the editor's document
  call,         \* the last locator call and its arguments
  segments,     \* the segments its scan recorded
  stmt,         \* what it returned
  \* ---- result formatter (arrow.ts)
  prev,         \* the tableToRows call in flight: its position and locals
  exp,          \* the recordBatchesToCSVParts call in flight, likewise
  running,      \* useState: a query is running
  sort,         \* useState: NoSort or the sort column and direction
  rowSearch,    \* useState: the row filter
  memo,         \* the sortedTable memo: what the result table shows
  rq,           \* the runQuery call in flight
  dateImpl,     \* how the browser's Date.parse reads text outside the standard forms
  tabs,         \* useState: the query tabs
  activeTabId,  \* useState
  stored,       \* localStorage: the item the tabs are saved under
  selectedCategory, \* useState
  now,          \* what Date.now() reads
  xp,           \* the exportCSV call in flight
  exporting,    \* useState: an export is running
  downloads,    \* the documents the browser was made to download
  lineCells,    \* the row handed to csvLine
  line,         \* the line csvLine returned
  \* ---- callers of the engine module (duckdb.ts) and of ensureDbReady
  inits,        \* how many engine initializations were started so far
  callers       \* the calls made and in flight, one record per call

collectVars == <<dirName, stack, seen, fileList, cstatus, collected>>
engineVars == <<statePromise, registered, views, inits, callers>>
appVars == <<dbStatus, files, folderName, parquetTableName, error, resultInfo,
             importInfo, table, loadingFiles, imp, ct>>

locVars == <<doc, call, segments, stmt>>
arrowVars == <<prev, exp>>
sortVars == <<running, sort, rowSearch, memo, rq, dateImpl>>
tabVars == <<tabs, activeTabId, stored, selectedCategory, now>>
exportVars == <<xp, exporting, downloads>>
lineVars == <<lineCells, line>>

vars == <<collectVars, engineVars, appVars, locVars, arrowVars, sortVars, tabVars,
         exportVars, lineVars>>

----------------------------------------------------------------------------
\* Bounds of the model.

\* Entries one traversal (or one flat selection) enumerates in all.
MaxEntries == 4
\* Directory nesting below the picked directory.
MaxDepth == 2
\* Files in one import batch.
MaxBatch == 2
\* Length of a document over the lexical alphabet (quotes, comments, ';').
MaxLexLen == 4
\* Length of a document over the plain alphabet (letters, blanks, ';').
MaxPlainLen == 5
\* Length of a document in which a selection is made.
MaxSelLen == 3
\* Rows of a small result, and columns of a result.
MaxSmallRows == 2
MaxCols == 2
\* Batches of one export, rows of a small batch, and the small flush threshold.
MaxBatches == 2
MaxBatchRows == 2
MaxFlush == 8
\* Cells of a row handed to csvLine, and characters in all its cells.
MaxCsvCells == 3
MaxCsvChars == 4
\* sortedTable: rows of the result that is sorted
MaxSortRows == 3
\* tabs: tabs open at once, and distinct readings of the clock
MaxTabs == 3
MaxClock == 2
\* engine module: calls made, overlapping or one after the other
MaxCallers == 3

----------------------------------------------------------------------------
\* Text helpers: what String.prototype methods do, on character sequences.

Min(a, b) == IF a < b THEN a ELSE b
Max(a, b) == IF a > b THEN a ELSE b

UpperChars == <<"A","B","C","D","E","F","G","H","I","J","K","L","M",
                "N","O","P","Q","R","S","T","U","V","W","X","Y","Z">>
LowerChars == <<"a","b","c","d","e","f","g","h","i","j","k","l","m",
                "n","o","p","q","r","s","t","u","v","w","x","y","z">>

LowerOf ==
  [c \in {UpperChars[i] : i \in 1..Len(UpperChars)} |->
     LowerChars[CHOOSE i \in 1..Len(UpperChars) : UpperChars[i] = c]]

toLowerChar(c) == IF c \in DOMAIN LowerOf THEN LowerOf[c] ELSE c

toLowerCase(s) == [i \in 1..Len(s) |-> toLowerChar(s[i])]

endsWith(s, suffix) ==
  /\ Len(suffix) <= Len(s)
  /\ SubSeq(s, Len(s) - Len(suffix) + 1, Len(s)) = suffix

\* The characters String.prototype.trim removes, as far as the model's
\* alphabets hold them.
IsSpace(c) == c \in {" ", "\n", "\r", "\t"}

RECURSIVE trimStart(_)
trimStart(s) ==
  IF s # <<>> /\ IsSpace(Head(s)) THEN trimStart(Tail(s)) ELSE s

RECURSIVE trimEnd(_)
trimEnd(s) ==
  IF s # <<>> /\ IsSpace(s[Len(s)]) THEN trimEnd(SubSeq(s, 1, Len(s) - 1)) ELSE s

trim(s) == trimEnd(trimStart(s))

\* String.prototype.slice(from, to) for 0 <= from, to (0-based, end exclusive).
slice(s, from, to) == SubSeq(s, from + 1, Min(to, Len(s)))

----------------------------------------------------------------------------
\* fileImport.ts

ExtParquet == <<".","p","a","r","q","u","e","t">>
ExtCsv     == <<".","c","s","v">>
ExtJson    == <<".","j","s","o","n">>
ExtNdjson  == <<".","n","d","j","s","o","n">>

isSupportedFilePath(path) ==
  LET lower == toLowerCase(path) IN
    \/ endsWith(lower, ExtParquet)
    \/ endsWith(lower, ExtCsv)
    \/ endsWith(lower, ExtJson)
    \/ endsWith(lower, ExtNdjson)

joinPath_alwaysSlash(basePath, name) == basePath \o <<"/">> \o name

\* `${basePath}/${name}`, or name alone under an empty base path.
joinPath(basePath, name) ==
  IF basePath # <<>> THEN basePath \o <<"/">> \o name ELSE name

\* file.type || 'file'
metaType(type) == IF type # "" THEN type ELSE "file"

ImportedFile(path, file) ==
  [path |-> path, size |-> file.size, type |-> metaType(file.type)]

\* One iteration of the loop of collectFilesFromDirectoryHandle on a file
\* handle whose getFile() resolved to `file`: the frame after it.
pushFile_unfiltered(fr, path, file) ==
  [fr EXCEPT !.files = Append(@, file),
             !.meta = IF isSupportedFilePath(path)
                        THEN Append(@, ImportedFile(path, file)) ELSE @]

pushFile(fr, path, file) ==
  IF ~isSupportedFilePath(path) THEN fr
  ELSE [fr EXCEPT !.files = Append(@, file),
                  !.meta = Append(@, ImportedFile(path, file))]

\* files.push(...nested.files); meta.push(...nested.meta)
pushNested(fr, nested) ==
  [fr EXCEPT !.files = @ \o nested.files, !.meta = @ \o nested.meta]

\* The names the file system hands out.
NameAParquet == <<"a",".","p","a","r","q","u","e","t">>
NameATxt     == <<"a",".","t","x","t">>
NameBCsv     == <<"b",".","c","s","v">>
NameCJson    == <<"C",".","J","S","O","N">>
NameSub      == <<"s","u","b">>
NameRoot     == <<"d">>

FileNames == {NameAParquet, NameATxt, NameBCsv, NameCJson}
DirNames  == {NameSub}
RootNames == {<<>>, NameRoot}

\* The File a handle's getFile() resolves to. ord is the object's identity:
\* the position of its entry in the enumeration.
FileOf(name, rel, ord) ==
  [name |-> name, webkitRelativePath |-> rel, size |-> ord,
   type |-> IF endsWith(name, ExtCsv) THEN "text/csv" ELSE "", ord |-> ord]

Top == stack[Len(stack)]

\* A call of collectFilesFromDirectoryHandle: its basePath and its two arrays.
\* entry is the position in seen of the directory the call walks (0: the
\* picked directory); the code does not hold it.
Frame(basePath, entry) ==
  [basePath |-> basePath, files |-> <<>>, meta |-> <<>>, entry |-> entry]

\* What the file system enumerated: an entry of directory `parent`.
Entry(name, parent, kind, ok, size) ==
  [name |-> name, parent |-> parent, kind |-> kind, ok |-> ok, size |-> size]

\* onPickFolder, lines 364-366: the picker resolves to a directory handle and
\* the traversal starts under rootPrefix.
PickFolder(name) ==
  /\ cstatus = "idle"
  /\ dirName' = name
  /\ stack' = <<Frame(IF name # <<>> THEN name ELSE <<>>, 0)>>
  /\ cstatus' = "walking"
  /\ UNCHANGED <<seen, fileList, collected>>

\* entries() yields a file handle; getFile() resolves (ok) or rejects.
EntryFile(name, ok) ==
  /\ cstatus = "walking"
  /\ Len(seen) < MaxEntries
  /\ LET path == joinPath(Top.basePath, name)
         ord  == Len(seen) + 1
         file == FileOf(name, <<>>, ord)
     IN /\ seen' = Append(seen, Entry(name, Top.entry, "file", ok, file.size))
        /\ IF isSupportedFilePath(path) /\ ~ok
             THEN /\ cstatus' = "threw"
                  /\ stack' = <<>>
             ELSE /\ cstatus' = cstatus
                  /\ stack' = [stack EXCEPT ![Len(stack)] = pushFile(@, path, file)]
  /\ UNCHANGED <<dirName, fileList, collected>>

\* entries() yields a directory handle: the recursive call starts.
EntryDir(name) ==
  /\ cstatus = "walking"
  /\ Len(seen) < MaxEntries
  /\ Len(stack) <= MaxDepth
  /\ LET path == joinPath(Top.basePath, name)
     IN /\ seen' = Append(seen, Entry(name, Top.entry, "directory", TRUE, 0))
        /\ stack' = Append(stack, Frame(path, Len(seen) + 1))
  /\ UNCHANGED <<dirName, fileList, cstatus, collected>>

\* entries() yields a handle that is neither a file nor a directory.
EntryOther(name) ==
  /\ cstatus = "walking"
  /\ Len(seen) < MaxEntries
  /\ seen' = Append(seen, Entry(name, Top.entry, "other", TRUE, 0))
  /\ UNCHANGED <<dirName, stack, fileList, cstatus, collected>>

\* entries() is exhausted: the call returns {files, meta}; a nested call's
\* result is appended to its caller's arrays.
EntriesDone ==
  /\ cstatus = "walking"
  /\ IF Len(stack) = 1
       THEN /\ collected' = [files |-> Top.files, meta |-> Top.meta]
            /\ cstatus' = "returned"
            /\ stack' = <<>>
       ELSE /\ stack' = [SubSeq(stack, 1, Len(stack) - 1) EXCEPT
                           ![Len(stack) - 1] = pushNested(@, Top)]
            /\ UNCHANGED <<cstatus, collected>>
  /\ UNCHANGED <<dirName, seen, fileList>>

\* The fallback input: the browser adds one selected file to the FileList.
RelPaths(name) == {<<>>, NameRoot \o <<"/">> \o NameSub \o <<"/">> \o name}

FileListAdd(name, rel) ==
  /\ cstatus \in {"idle", "listing"}
  /\ Len(fileList) < MaxEntries
  /\ fileList' = Append(fileList, FileOf(name, rel, Len(fileList) + 1))
  /\ cstatus' = "listing"
  /\ UNCHANGED <<dirName, stack, seen, collected>>

RECURSIVE collectFilesFromFileList(_)
collectFilesFromFileList(list) ==
  IF list = <<>> THEN [files |-> <<>>, meta |-> <<>>]
  ELSE LET file == Head(list)
           path == IF file.webkitRelativePath # <<>>
                     THEN file.webkitRelativePath ELSE file.name
           rest == collectFilesFromFileList(Tail(list))
       IN IF ~isSupportedFilePath(path) THEN rest
          ELSE [files |-> <<file>> \o rest.files,
                meta |-> <<ImportedFile(path, file)>> \o rest.meta]

\* onFolderInputChange, lines 375-379.
FolderInputChange ==
  /\ cstatus = "listing"
  /\ collected' = collectFilesFromFileList(fileList)
  /\ cstatus' = "returned"
  /\ UNCHANGED <<dirName, stack, seen, fileList>>

----------------------------------------------------------------------------
\* What the claims about the collector are stated against: the tree the file
\* system enumerated (seen), read independently of the frames.

AllowList == {ExtParquet, ExtCsv, ExtJson, ExtNdjson}

\* path, lower-cased, is some text followed by an allow-listed extension.
HasAllowedSuffix(path) ==
  LET lower == toLowerCase(path) IN
    \E ext \in AllowList : \E k \in 0..Len(path) :
      lower = SubSeq(lower, 1, k) \o ext

\* The path of entry i relative to the picked directory.
RECURSIVE RelPath(_)
RelPath(i) ==
  IF seen[i].parent = 0 THEN seen[i].name
  ELSE RelPath(seen[i].parent) \o <<"/">> \o seen[i].name

\* The path of entry i as the import names it: under the picked directory's
\* name when it has one.
FullPath(i) ==
  IF dirName # <<>> THEN dirName \o <<"/">> \o RelPath(i) ELSE RelPath(i)

RECURSIVE SeqOfIndices(_, _)
\* The members of the set S of numbers, ascending, as a sequence.
SeqOfIndices(S, from) ==
  IF S = {} THEN <<>>
  ELSE LET m == CHOOSE x \in S : \A y \in S : x <= y
       IN <<m>> \o SeqOfIndices(S \ {m}, from)

\* The allow-listed file entries of the enumerated tree, in enumeration order.
AllowedEntries ==
  SeqOfIndices({i \in 1..Len(seen) :
                  seen[i].kind = "file" /\ HasAllowedSuffix(seen[i].name)}, 0)

\* The same, leaving out the entries whose read failed.
ReadableAllowedEntries ==
  SeqOfIndices({i \in 1..Len(seen) :
                  seen[i].kind = "file" /\ HasAllowedSuffix(seen[i].name)
                  /\ seen[i].ok}, 0)

PathsOf(meta) == [i \in 1..Len(meta) |-> meta[i].path]

FromTraversal == fileList = <<>> /\ cstatus \in {"walking", "returned", "threw"}

\* meta[i] describes files[i]: the same entry, its path and its size.
Describes(m, f) ==
  /\ m.size = f.size
  /\ IF fileList = <<>>
       THEN /\ f.ord \in 1..Len(seen)
            /\ seen[f.ord].name = f.name
            /\ m.path = FullPath(f.ord)
       ELSE /\ f.ord \in 1..Len(fileList)
            /\ fileList[f.ord] = f
            /\ m.path \in {f.webkitRelativePath, f.name}

Aligned(r) ==
  /\ Len(r.files) = Len(r.meta)
  /\ \A i \in 1..Len(r.meta) :
       /\ HasAllowedSuffix(r.meta[i].path)
       /\ Describes(r.meta[i], r.files[i])

\* C1: at every point of a traversal and in every result, of a directory tree
\* or of a flat selection, files and meta have the same length, every meta
\* path ends (lower-cased) in an allow-listed extension, and meta[i] has the
\* path and size of the entry files[i] was read from.
C1_AlignedAllowListed ==
  /\ Aligned(collected)
  /\ \A d \in 1..Len(stack) : Aligned(stack[d])

\* A traversal and a flat selection that returned two files after skipping
\* an entry that is not allow-listed.
C1_Witness ==
  /\ cstatus = "returned"
  /\ Len(collected.meta) >= 2
  /\ \/ \E i \in 1..Len(seen) : seen[i].kind = "file" /\ seen[i].name = NameATxt
     \/ \E i \in 1..Len(fileList) : fileList[i].name = NameATxt

\* The tree of the example: a.parquet, a.txt and sub/b.csv.
ExampleTree ==
  seen = << Entry(NameAParquet, 0, "file", TRUE, 1),
            Entry(NameATxt, 0, "file", TRUE, 2),
            Entry(NameSub, 0, "directory", TRUE, 0),
            Entry(NameBCsv, 3, "file", TRUE, 4) >>

C3_FailSoft ==
  FromTraversal =>
    /\ cstatus # "threw"
    /\ cstatus = "returned" =>
         [k \in 1..Len(collected.files) |-> collected.files[k].ord]
           = ReadableAllowedEntries

----------------------------------------------------------------------------
\* duckdb.ts: the engine latch, and App.tsx: importFiles and what it calls.

NoImport ==
  [pc |-> "idle", meta |-> <<>>, label |-> "", i |-> 0, imported |-> <<>>,
   tableName |-> <<>>, filesAtStart |-> <<>>, failedAt |-> ""]

\* The batches the two collectors hand to importFiles.
PathAParquet == NameRoot \o <<"/">> \o NameAParquet
PathBCsv     == NameRoot \o <<"/">> \o NameBCsv

MetaPool ==
  { [path |-> PathAParquet, size |-> 1, type |-> "file"],
    [path |-> PathBCsv, size |-> 2, type |-> "text/csv"] }

RECURSIVE SeqsUpTo(_, _)
\* The sequences over S of length at most n.
SeqsUpTo(S, n) ==
  IF n = 0 THEN {<<>>}
  ELSE LET shorter == SeqsUpTo(S, n - 1)
       IN shorter \cup {Append(q, x) : q \in shorter, x \in S}

Batches == SeqsUpTo(MetaPool, MaxBatch)
Labels == {"d", "pasta"}
TableNames == {<<>>, <<" ">>, <<"t">>}

\* parquetPaths(imported)
parquetPaths(imported) ==
  LET keep(f) == endsWith(toLowerCase(f.path), ExtParquet)
  IN [k \in 1..Len(SelectSeq(imported, keep)) |-> SelectSeq(imported, keep)[k].path]

\* getDuckDB() with the latch left out: whatever promise is stored, a call
\* that finds the engine not yet up starts an initialization of its own.
startsInit_unlatched == statePromise # "resolved"

\* `if (statePromise) return statePromise` does not return: the call is the
\* first one and starts the initialization.
startsInit == statePromise = "null"

\* getDuckDB(): the first call starts the one initialization; what is then in
\* statePromise, and how many initializations were started.
getDuckDB == IF startsInit THEN "pending" ELSE statePromise
initsStarted == IF startsInit THEN inits + 1 ELSE inits

\* The import leaves its try block with an error: finally, then the caller's catch.
ImportFail_commitsPartial(at, msg) ==
  /\ loadingFiles' = FALSE
  /\ error' = msg
  /\ files' = imp.imported
  /\ imp' = [imp EXCEPT !.pc = "failed", !.failedAt = at]

ImportFail(at, msg) ==
  /\ loadingFiles' = FALSE
  /\ error' = msg
  /\ files' = files
  /\ imp' = [imp EXCEPT !.pc = "failed", !.failedAt = at]

\* The picker button (or the fallback input) hands a collected batch to
\* importFiles, which runs to its first await inside ensureDbReady.
ImportStart(meta, label) ==
  /\ imp.pc \in {"idle", "done", "failed"}
  /\ dbStatus # "loading" /\ ~loadingFiles
  /\ error' = ""
  /\ resultInfo' = ""
  /\ importInfo' = ""
  /\ table' = "undefined"
  /\ loadingFiles' = TRUE
  /\ IF dbStatus \in {"ready", "loading"}
       THEN /\ imp' = [pc |-> "loop", meta |-> meta, label |-> label, i |-> 0,
                       imported |-> <<>>, tableName |-> parquetTableName,
                       filesAtStart |-> files, failedAt |-> ""]
            /\ UNCHANGED <<dbStatus, statePromise, inits>>
       ELSE /\ dbStatus' = "loading"
            /\ statePromise' = getDuckDB
            /\ inits' = initsStarted
            /\ imp' = [pc |-> "awaitInit", meta |-> meta, label |-> label, i |-> 0,
                       imported |-> <<>>, tableName |-> parquetTableName,
                       filesAtStart |-> files, failedAt |-> ""]
  /\ UNCHANGED <<files, folderName, parquetTableName, registered, views, callers, ct>>

\* The initialization started by getDuckDB settles.
EngineInit(ok) ==
  /\ statePromise = "pending"
  /\ statePromise' = IF ok THEN "resolved" ELSE "rejected"
  /\ UNCHANGED <<registered, views, inits, callers, appVars>>

\* ---- callers of the engine module, overlapping in any order

\* A caller at rest. `found` is what the call found in statePromise,
\* `promise` numbers the initialization whose promise the caller was handed
\* (0: none), `ran` tells that its engine call was made.
NoCaller == [fn |-> "none", pc |-> "idle", dbStatus |-> "idle", found |-> "null",
             promise |-> 0, ran |-> FALSE]

EngineCalls == {"getDuckDB", "query", "registerFileBuffer"}

\* getDuckDB(), query(sql) or registerFileBuffer(path, buf) is called: the
\* latter two start with `await getDuckDB()`.
CallEngine(c, fn) ==
  /\ callers[c].pc = "idle"
  /\ statePromise' = getDuckDB
  /\ inits' = initsStarted
  /\ callers' = [callers EXCEPT ![c] = [NoCaller EXCEPT !.fn = fn,
                                                        !.pc = "awaitInit",
                                                        !.found = statePromise,
                                                        !.promise = initsStarted]]
  /\ UNCHANGED <<registered, views, appVars>>

\* A handler of the component is invoked: the ensureDbReady it is going to
\* call belongs to the render the handler was created in, and reads that
\* render's dbStatus.
HandlerEntered(c) ==
  /\ callers[c].pc = "idle"
  /\ callers' = [callers EXCEPT ![c] = [NoCaller EXCEPT !.fn = "ensureDbReady",
                                                        !.pc = "entered",
                                                        !.dbStatus = dbStatus]]
  /\ UNCHANGED <<statePromise, registered, views, inits, appVars>>

\* What ensureDbReady sets dbStatus to when `await getDuckDB()` is over,
\* read as setting 'ready' whatever the outcome.
dbStatusAfterInit_alwaysReady(ok) == "ready"

\* What ensureDbReady sets dbStatus to when `await getDuckDB()` is over.
dbStatusAfterInit(ok) == IF ok THEN "ready" ELSE "idle"

\* The handler calls ensureDbReady(), which runs to its await or returns.
CallEnsureDbReady(c) ==
  /\ callers[c].pc = "entered"
  /\ IF callers[c].dbStatus \in {"ready", "loading"}
       THEN /\ callers' = [callers EXCEPT ![c].pc = "done"]
            /\ UNCHANGED <<dbStatus, statePromise, inits>>
       ELSE /\ dbStatus' = "loading"
            /\ statePromise' = getDuckDB
            /\ inits' = initsStarted
            /\ callers' = [callers EXCEPT ![c].pc = "awaitInit",
                                          ![c].found = statePromise,
                                          ![c].promise = initsStarted]
  /\ UNCHANGED <<registered, views, files, folderName, parquetTableName, error,
                 resultInfo, importInfo, table, loadingFiles, imp, ct>>

\* The promise a caller awaits has settled and the caller resumes: getDuckDB
\* hands over { db, conn }, query and registerFileBuffer make their engine
\* call, ensureDbReady sets dbStatus; on a rejection each of them throws.
CallerResumes(c) ==
  /\ callers[c].pc = "awaitInit"
  /\ statePromise \in {"resolved", "rejected"}
  /\ LET ok == statePromise = "resolved"
     IN /\ callers' = [callers EXCEPT
                         ![c].pc = IF ok THEN "done" ELSE "failed",
                         ![c].ran = ok /\ callers[c].fn \in {"query", "registerFileBuffer"}]
        /\ dbStatus' = IF callers[c].fn = "ensureDbReady" THEN dbStatusAfterInit(ok)
                       ELSE dbStatus
        /\ registered' = IF ok /\ callers[c].fn = "registerFileBuffer"
                           THEN registered \cup {NameAParquet} ELSE registered
  /\ UNCHANGED <<statePromise, views, inits, files, folderName, parquetTableName,
                 error, resultInfo, importInfo, table, loadingFiles, imp, ct>>

\* ensureDbReady resumes after await getDuckDB().
ImportInitDone ==
  /\ imp.pc = "awaitInit"
  /\ statePromise \in {"resolved", "rejected"}
  /\ IF statePromise = "resolved"
       THEN /\ dbStatus' = "ready"
            /\ imp' = [imp EXCEPT !.pc = "loop"]
            /\ UNCHANGED <<loadingFiles, error, files>>
       ELSE /\ dbStatus' = "idle"
            /\ ImportFail("init", "init failed")
  /\ UNCHANGED <<folderName, parquetTableName, resultInfo, importInfo, table,
                 engineVars, ct>>

\* await file.arrayBuffer() resolves or rejects.
ImportReadFile(ok) ==
  /\ imp.pc = "loop"
  /\ imp.i < Len(imp.meta)
  /\ IF ok
       THEN /\ imp' = [imp EXCEPT !.pc = "register"]
            /\ UNCHANGED <<loadingFiles, error, files>>
       ELSE ImportFail("read", "read failed")
  /\ UNCHANGED <<dbStatus, folderName, parquetTableName, resultInfo, importInfo,
                 table, engineVars, ct>>

\* await registerFileBuffer(fileMeta.path, data): it awaits getDuckDB(), then
\* the engine registers the buffer or rejects.
ImportRegister(ok) ==
  /\ imp.pc = "register"
  /\ statePromise \in {"resolved", "rejected"}
  /\ IF ok /\ statePromise = "resolved"
       THEN /\ registered' = registered \cup {imp.meta[imp.i + 1].path}
            /\ imp' = [imp EXCEPT !.pc = "loop", !.i = @ + 1,
                                  !.imported = Append(@, imp.meta[imp.i + 1])]
            /\ UNCHANGED <<loadingFiles, error, files>>
       ELSE /\ ImportFail("register", "register failed")
            /\ UNCHANGED registered
  /\ UNCHANGED <<dbStatus, folderName, parquetTableName, resultInfo, importInfo,
                 table, statePromise, views, inits, callers, ct>>

\* The loop is over: setFolderName, setFiles, then createOrReplaceParquetView
\* up to its await of exec.
ImportCommit ==
  /\ imp.pc = "loop"
  /\ imp.i = Len(imp.meta)
  /\ folderName' = imp.label
  /\ LET name == trim(imp.tableName) IN
       IF name = <<>>
         THEN /\ files' = imp.imported
              /\ loadingFiles' = FALSE
              /\ imp' = [imp EXCEPT !.pc = "done"]
              /\ UNCHANGED error
         ELSE IF Len(parquetPaths(imp.imported)) = 0
           THEN /\ files' = imp.imported
                /\ loadingFiles' = FALSE
                /\ error' = "no parquet"
                /\ imp' = [imp EXCEPT !.pc = "failed", !.failedAt = "view"]
           ELSE /\ files' = imp.imported
                /\ imp' = [imp EXCEPT !.pc = "exec"]
                /\ UNCHANGED <<loadingFiles, error>>
  /\ UNCHANGED <<dbStatus, parquetTableName, resultInfo, importInfo, table,
                 engineVars, ct>>

\* await exec(CREATE OR REPLACE VIEW ...) resolves or rejects.
ImportExec(ok) ==
  /\ imp.pc = "exec"
  /\ statePromise \in {"resolved", "rejected"}
  /\ IF ok /\ statePromise = "resolved"
       THEN /\ views' = views \cup {trim(imp.tableName)}
            /\ importInfo' = "created"
            /\ loadingFiles' = FALSE
            /\ imp' = [imp EXCEPT !.pc = "done"]
            /\ UNCHANGED error
       ELSE /\ loadingFiles' = FALSE
            /\ error' = "exec failed"
            /\ imp' = [imp EXCEPT !.pc = "failed", !.failedAt = "view"]
            /\ UNCHANGED <<views, importInfo>>
  /\ UNCHANGED <<dbStatus, files, folderName, parquetTableName, resultInfo, table,
                 statePromise, registered, inits, callers, ct>>

\* ---- onCreateTable

NoCreateTable == [pc |-> "idle", name |-> <<>>]

\* The create-table button, enabled when the engine is ready and files are
\* imported, is pressed: onCreateTable passes ensureDbReady, which returns at
\* once, and createOrReplaceParquetView returns, throws or reaches its exec.
CreateTableStart ==
  /\ dbStatus = "ready" /\ files # <<>>
  /\ importInfo' = ""
  /\ LET name == trim(parquetTableName) IN
       IF name = <<>>
         THEN /\ error' = ""
              /\ ct' = [pc |-> "done", name |-> name]
         ELSE IF Len(parquetPaths(files)) = 0
           THEN /\ error' = "no parquet"
                /\ ct' = [pc |-> "failed", name |-> name]
           ELSE /\ error' = ""
                /\ ct' = [pc |-> "awaitExec", name |-> name]
  /\ UNCHANGED <<dbStatus, files, folderName, parquetTableName, resultInfo, table,
                 loadingFiles, imp, engineVars>>

\* await exec(CREATE OR REPLACE VIEW ...) of onCreateTable resolves or rejects.
CreateTableExec(ok) ==
  /\ ct.pc = "awaitExec"
  /\ statePromise \in {"resolved", "rejected"}
  /\ IF ok /\ statePromise = "resolved"
       THEN /\ views' = views \cup {ct.name}
            /\ importInfo' = "created"
            /\ ct' = [ct EXCEPT !.pc = "done"]
            /\ UNCHANGED error
       ELSE /\ error' = "exec failed"
            /\ ct' = [ct EXCEPT !.pc = "failed"]
            /\ UNCHANGED <<views, importInfo>>
  /\ UNCHANGED <<dbStatus, files, folderName, parquetTableName, resultInfo, table,
                 loadingFiles, imp, statePromise, registered, inits, callers>>

\* The user types in the table-name input.
SetTableName(v) ==
  /\ parquetTableName # v
  /\ parquetTableName' = v
  /\ UNCHANGED <<dbStatus, files, folderName, error, resultInfo, importInfo, table,
                 loadingFiles, imp, ct, engineVars>>

\* C4 as stated: an import that failed, at whatever step, left the shown file
\* set as it was when the import started.
C4_AllOrNothing ==
  imp.pc = "failed" => files = imp.filesAtStart

\* C4: an import replaces the shown file set only once every file of the batch
\* has been read and registered, and then by exactly the batch. An import that
\* fails while the engine initializes, while reading a file's bytes or while
\* registering a buffer leaves the file set as it was when the import started;
\* one that fails creating the parquet view fails after the file set was
\* replaced by the batch.
C4_CommitAfterBatch ==
  /\ imp.pc \in {"awaitInit", "loop", "register"} => files = imp.filesAtStart
  /\ (imp.pc = "failed" /\ imp.failedAt \in {"init", "read", "register"})
        => files = imp.filesAtStart
  /\ (imp.pc \in {"exec", "done"} \/ (imp.pc = "failed" /\ imp.failedAt = "view"))
        => /\ files = imp.meta
           /\ \A k \in 1..Len(imp.meta) : imp.meta[k].path \in registered

\* A batch failed at its second file, after its first was registered, and the
\* file set of an earlier import is still shown.
C4_Witness ==
  /\ imp.pc = "failed"
  /\ imp.failedAt \in {"read", "register"}
  /\ imp.i = 1
  /\ files # <<>>
  /\ files # imp.imported

----------------------------------------------------------------------------
\* App.tsx: statementAtPosition and getSQLAtCursorOrSelection. Offsets are
\* 0-based as in the code; sql[i] of the code is sql[i + 1] here.

\* One iteration of the scan loop on character ch with lookahead next:
\* the mode after it, how far i moves, and whether a segment ends at ch.
scanStep_splitsInString(ch, next, mode) ==
  CASE mode = "inLineComment" ->
         [mode |-> IF ch = "\n" THEN "none" ELSE mode, skip |-> 1, split |-> FALSE]
    [] mode = "inBlockComment" ->
         IF ch = "*" /\ next = "/"
           THEN [mode |-> "none", skip |-> 2, split |-> FALSE]
           ELSE [mode |-> mode, skip |-> 1, split |-> FALSE]
    [] mode = "inSingle" ->
         IF ch = "'" /\ next = "'" THEN [mode |-> mode, skip |-> 2, split |-> FALSE]
         ELSE [mode |-> IF ch = "'" THEN "none" ELSE mode, skip |-> 1, split |-> ch = ";"]
    [] mode = "inDouble" ->
         IF ch = "\"" /\ next = "\"" THEN [mode |-> mode, skip |-> 2, split |-> FALSE]
         ELSE [mode |-> IF ch = "\"" THEN "none" ELSE mode, skip |-> 1, split |-> FALSE]
    [] OTHER ->
         IF ch = "-" /\ next = "-" THEN [mode |-> "inLineComment", skip |-> 2, split |-> FALSE]
         ELSE IF ch = "/" /\ next = "*"
           THEN [mode |-> "inBlockComment", skip |-> 2, split |-> FALSE]
         ELSE IF ch = "'" THEN [mode |-> "inSingle", skip |-> 1, split |-> FALSE]
         ELSE IF ch = "\"" THEN [mode |-> "inDouble", skip |-> 1, split |-> FALSE]
         ELSE [mode |-> "none", skip |-> 1, split |-> ch = ";"]

scanStep(ch, next, mode) ==
  CASE mode = "inLineComment" ->
         [mode |-> IF ch = "\n" THEN "none" ELSE mode, skip |-> 1, split |-> FALSE]
    [] mode = "inBlockComment" ->
         IF ch = "*" /\ next = "/"
           THEN [mode |-> "none", skip |-> 2, split |-> FALSE]
           ELSE [mode |-> mode, skip |-> 1, split |-> FALSE]
    [] mode = "inSingle" ->
         IF ch = "'" /\ next = "'" THEN [mode |-> mode, skip |-> 2, split |-> FALSE]
         ELSE [mode |-> IF ch = "'" THEN "none" ELSE mode, skip |-> 1, split |-> FALSE]
    [] mode = "inDouble" ->
         IF ch = "\"" /\ next = "\"" THEN [mode |-> mode, skip |-> 2, split |-> FALSE]
         ELSE [mode |-> IF ch = "\"" THEN "none" ELSE mode, skip |-> 1, split |-> FALSE]
    [] OTHER ->
         IF ch = "-" /\ next = "-" THEN [mode |-> "inLineComment", skip |-> 2, split |-> FALSE]
         ELSE IF ch = "/" /\ next = "*"
           THEN [mode |-> "inBlockComment", skip |-> 2, split |-> FALSE]
         ELSE IF ch = "'" THEN [mode |-> "inSingle", skip |-> 1, split |-> FALSE]
         ELSE IF ch = "\"" THEN [mode |-> "inDouble", skip |-> 1, split |-> FALSE]
         ELSE [mode |-> "none", skip |-> 1, split |-> ch = ";"]

RECURSIVE scan(_, _, _, _, _)
\* The for loop of statementAtPosition from index i on, and the trailing push.
scan(sql, i, start, mode, segs) ==
  IF i >= Len(sql) THEN Append(segs, [start |-> start, end |-> Len(sql)])
  ELSE LET ch   == sql[i + 1]
           next == IF i + 1 < Len(sql) THEN sql[i + 2] ELSE ""
           st   == scanStep(ch, next, mode)
       IN IF st.split
            THEN scan(sql, i + 1, i + 1, st.mode, Append(segs, [start |-> start, end |-> i]))
            ELSE scan(sql, i + st.skip, start, st.mode, segs)

scanSegments(sql) == scan(sql, 0, 0, "none", <<>>)

findIndex_exclusiveEnd(segs, clampedPos) ==
  LET hits == {k \in 1..Len(segs) : clampedPos >= segs[k].start /\ clampedPos < segs[k].end}
  IN IF hits = {} THEN Len(segs) ELSE CHOOSE k \in hits : \A h \in hits : k <= h

\* segments.findIndex(...), and the last segment when there is none; 1-based.
findIndex(segs, clampedPos) ==
  LET hits == {k \in 1..Len(segs) : clampedPos >= segs[k].start /\ clampedPos <= segs[k].end}
  IN IF hits = {} THEN Len(segs) ELSE CHOOSE k \in hits : \A h \in hits : k <= h

pick(sql, segs, k) == trim(slice(sql, segs[k].start, segs[k].end))

RECURSIVE searchBackward(_, _, _)
searchBackward(sql, segs, j) ==
  IF j < 1 THEN <<>>
  ELSE IF pick(sql, segs, j) # <<>> THEN pick(sql, segs, j)
  ELSE searchBackward(sql, segs, j - 1)

RECURSIVE searchForward(_, _, _)
searchForward(sql, segs, j) ==
  IF j > Len(segs) THEN <<>>
  ELSE IF pick(sql, segs, j) # <<>> THEN pick(sql, segs, j)
  ELSE searchForward(sql, segs, j + 1)

resolve_forwardFirst(sql, segs, idx) ==
  IF pick(sql, segs, idx) # <<>> THEN pick(sql, segs, idx)
  ELSE IF searchForward(sql, segs, idx + 1) # <<>> THEN searchForward(sql, segs, idx + 1)
  ELSE searchBackward(sql, segs, idx - 1)

\* Lines 141-150: the segment at idx, else the nearest non-empty one before
\* it, else the nearest non-empty one after it, else ''.
resolve(sql, segs, idx) ==
  IF pick(sql, segs, idx) # <<>> THEN pick(sql, segs, idx)
  ELSE IF searchBackward(sql, segs, idx - 1) # <<>> THEN searchBackward(sql, segs, idx - 1)
  ELSE searchForward(sql, segs, idx + 1)

statementAtPosition(sql, position) ==
  LET segs == scanSegments(sql)
      clampedPos == Max(0, Min(position, Len(sql)))
  IN resolve(sql, segs, findIndex(segs, clampedPos))

\* The last line of DEFAULT_SQL (its comment lines are left out).
DEFAULT_SQL == <<"S","E","L","E","C","T"," ","4","2",";">>

\* activeTab?.sql || DEFAULT_SQL, the active tab holding the document.
currentSQL == IF doc # <<>> THEN doc ELSE DEFAULT_SQL

getSQLAtCursorOrSelection_ignoresSelection(view, from, to, head) ==
  IF ~view THEN currentSQL
  ELSE LET s == trim(statementAtPosition(doc, head))
       IN IF s # <<>> THEN s ELSE trim(doc)

getSQLAtCursorOrSelection(view, from, to, head) ==
  IF ~view THEN currentSQL
  ELSE LET selected == IF from # to THEN trim(slice(doc, from, to)) ELSE <<>>
       IN IF selected # <<>> THEN selected
          ELSE LET s == trim(statementAtPosition(doc, head))
               IN IF s # <<>> THEN s ELSE trim(doc)

\* The documents of the model.
LexChars   == {";", "'", "\"", "-", "/", "*", "\n", "a"}
PlainChars == {"a", "b", ";", " "}

Example1 == <<"S","E","L","E","C","T"," ","'",";","'"," ",";"," ",
              "S","E","L","E","C","T"," ","2",";">>
Example2 == <<"-","-"," ","c",";","\n","S","E","L","E","C","T"," ","1",";"," ",
              "S","E","L","E","C","T"," ","2",";">>

Examples == {Example1, Example2}

\* A document of the model: short text over one of the two alphabets.
IsDoc(d) ==
  \/ Len(d) <= MaxLexLen /\ \A k \in 1..Len(d) : d[k] \in LexChars
  \/ Len(d) <= MaxPlainLen /\ \A k \in 1..Len(d) : d[k] \in PlainChars

NoCall == [fn |-> "none", position |-> 0, view |-> FALSE, from |-> 0, to |-> 0,
           head |-> 0]

\* The user types character c at the end of the document.
TypeChar(c) ==
  /\ call.fn = "none"
  /\ IsDoc(Append(doc, c))
  /\ doc' = Append(doc, c)
  /\ UNCHANGED <<call, segments, stmt>>

\* The user pastes script d into the empty editor.
PasteDoc(d) ==
  /\ call.fn = "none"
  /\ doc = <<>>
  /\ doc' = d
  /\ UNCHANGED <<call, segments, stmt>>

\* statementAtPosition(doc, position) is called.
CallStatementAt(position) ==
  /\ call.fn = "none"
  /\ call' = [NoCall EXCEPT !.fn = "statementAtPosition", !.position = position]
  /\ segments' = scanSegments(doc)
  /\ stmt' = statementAtPosition(doc, position)
  /\ UNCHANGED doc

\* getSQLAtCursorOrSelection() is called with the editor's main selection
\* from..to, its head at one of the two ends (or before the editor is mounted).
CallGetSQL(view, from, to, head) ==
  /\ call.fn = "none"
  /\ Len(doc) <= MaxSelLen
  /\ view \/ (from = 0 /\ to = 0)
  /\ call' = [fn |-> "getSQL", position |-> head, view |-> view, from |-> from,
              to |-> to, head |-> head]
  /\ segments' = IF view /\ (from = to \/ trim(slice(doc, from, to)) = <<>>)
                    THEN scanSegments(doc) ELSE <<>>
  /\ stmt' = getSQLAtCursorOrSelection(view, from, to, head)
  /\ UNCHANGED doc

----------------------------------------------------------------------------
\* What the claims about the locator are stated against: a reading of the
\* document token by token, independent of the character loop.

LeastOf(S) == CHOOSE x \in S : \A y \in S : x <= y
GreatestOf(S) == CHOOSE x \in S : \A y \in S : x >= y

\* Where the run of consecutive q's that ends at j starts, not before lo.
RunStart(s, q, lo, j) ==
  LeastOf({k \in lo..j : \A m \in k..j : s[m] = q})

\* The closing quote of the quoted text opened at i: the end of the first run
\* of q's of odd length (a pair of q's is an escape); the end of s when none.
ClosingQuote(s, q, i) ==
  LET ends == {j \in (i + 1)..Len(s) :
                 /\ s[j] = q
                 /\ (j = Len(s) \/ s[j + 1] # q)
                 /\ (j - RunStart(s, q, i + 1, j) + 1) % 2 = 1}
  IN IF ends = {} THEN Len(s) ELSE LeastOf(ends)

\* The last character of the token that starts at i (1-based) outside any
\* quote or comment.
TokenEnd(s, i) ==
  IF i < Len(s) /\ s[i] = "-" /\ s[i + 1] = "-"
    THEN LET nl == {j \in (i + 2)..Len(s) : s[j] = "\n"}
         IN IF nl = {} THEN Len(s) ELSE LeastOf(nl)
  ELSE IF i < Len(s) /\ s[i] = "/" /\ s[i + 1] = "*"
    THEN LET close == {j \in (i + 2)..(Len(s) - 1) : s[j] = "*" /\ s[j + 1] = "/"}
         IN IF close = {} THEN Len(s) ELSE LeastOf(close) + 1
  ELSE IF s[i] \in {"'", "\""} THEN ClosingQuote(s, s[i], i)
  ELSE i

RECURSIVE TokenStarts(_, _)
TokenStarts(s, i) ==
  IF i > Len(s) THEN {} ELSE {i} \cup TokenStarts(s, TokenEnd(s, i) + 1)

\* The offsets (0-based) of the ';' that lie in no quote and no comment.
Splitters(s) == {i - 1 : i \in {t \in TokenStarts(s, 1) : s[t] = ";"}}

\* The segments those ';' cut the document into.
RefSegments(s) ==
  LET sp == SeqOfIndices(Splitters(s), 0)
  IN [k \in 1..(Len(sp) + 1) |->
        [start |-> IF k = 1 THEN 0 ELSE sp[k - 1] + 1,
         end   |-> IF k <= Len(sp) THEN sp[k] ELSE Len(s)]]

Select2 == <<"S","E","L","E","C","T"," ","2">>
SelectQuoted == <<"S","E","L","E","C","T"," ","'",";","'">>
EscapedQuoteDoc == <<"'", "'", "'", ";">>

\* Whether the last call ran the scan: statementAtPosition itself, or
\* getSQLAtCursorOrSelection on a mounted editor without a non-blank selection.
Scanned ==
  \/ call.fn = "statementAtPosition"
  \/ /\ call.fn = "getSQL" /\ call.view
     /\ (call.from = call.to \/ trim(slice(doc, call.from, call.to)) = <<>>)

\* C5: the segments of every scan end exactly at the ';' that lie in no
\* single-quoted string (doubled quotes being escapes), double-quoted
\* identifier, line comment or block comment; statementAtPosition returns
\* "SELECT ';'" for "SELECT ';' ; SELECT 2;" at 5, and "SELECT 2" for
\* "-- c;\nSELECT 1; SELECT 2;" with the cursor inside SELECT 2.
C5_OnlyTopLevelSemicolonsSplit ==
  Scanned =>
    /\ segments = RefSegments(doc)
    /\ (doc = Example1 /\ call.fn = "statementAtPosition" /\ call.position = 5)
          => stmt = SelectQuoted
    /\ (doc = Example2 /\ call.fn = "statementAtPosition" /\ call.position \in 16..24)
          => stmt = Select2

\* The scan of a string holding an escaped quote and a ';' left one segment,
\* and the first example was located at 5.
C5_Witness ==
  \/ /\ call.fn = "statementAtPosition"
     /\ doc = EscapedQuoteDoc
     /\ Len(segments) = 1
  \/ /\ call.fn = "statementAtPosition"
     /\ doc = Example1 /\ call.position = 5 /\ stmt = SelectQuoted

IsPlain(d) == \A k \in 1..Len(d) : d[k] \notin {"'", "\"", "-", "/", "*"}

ClampedPos == Max(0, Min(call.position, Len(doc)))

\* Whether the call locates the statement at the cursor: statementAtPosition
\* itself, or getSQLAtCursorOrSelection on a mounted editor with no selection.
LocatesAtCursor ==
  \/ call.fn = "statementAtPosition"
  \/ call.fn = "getSQL" /\ call.view /\ call.from = call.to

\* The text between the last ';' before offset p and the first ';' at or
\* after it (the ends of d where there is none).
Between(d, p) ==
  LET semis == {j \in 0..(Len(d) - 1) : d[j + 1] = ";"}
      left  == {j \in semis : j < p}
      right == {j \in semis : j >= p}
  IN slice(d, IF left = {} THEN 0 ELSE GreatestOf(left) + 1,
              IF right = {} THEN Len(d) ELSE LeastOf(right))

\* C6 as stated: on a document without quote and comment characters the
\* result is the trimmed text between the semicolons that bracket the cursor.
C6_Bracketed ==
  (LocatesAtCursor /\ IsPlain(doc)) => stmt = trim(Between(doc, ClampedPos))

\* C6: on a document without quote and comment characters, at every cursor
\* position (clamped into the document), the result is the trimmed text between
\* the semicolons that bracket the cursor whenever that text is not blank.
C6_BracketedNonBlank ==
  (LocatesAtCursor /\ IsPlain(doc) /\ trim(Between(doc, ClampedPos)) # <<>>)
     => stmt = trim(Between(doc, ClampedPos))

\* The statement between two semicolons of "a;b;a" was located.
C6_Witness ==
  /\ call.fn = "statementAtPosition"
  /\ doc = <<"a", ";", "b", ";", "a">>
  /\ call.position \in 2..3
  /\ stmt = <<"b">>

\* The segment (1-based) the clamped cursor lies in, and the segments' texts.
CursorSegment ==
  LeastOf({k \in 1..Len(RefSegments(doc)) :
             /\ ClampedPos >= RefSegments(doc)[k].start
             /\ ClampedPos <= RefSegments(doc)[k].end})

SegmentText(k) == trim(slice(doc, RefSegments(doc)[k].start, RefSegments(doc)[k].end))

NonBlankSegments == {k \in 1..Len(RefSegments(doc)) : SegmentText(k) # <<>>}

Distance(j, k) == IF j >= k THEN j - k ELSE k - j

\* C7 as stated: from a blank segment the result is a non-blank segment at the
\* smallest distance from the cursor's segment.
C7_NearestNeighbour ==
  (call.fn = "statementAtPosition" /\ SegmentText(CursorSegment) = <<>>
     /\ NonBlankSegments # {})
  => \E k \in NonBlankSegments :
       /\ \A j \in NonBlankSegments :
            Distance(k, CursorSegment) <= Distance(j, CursorSegment)
       /\ stmt = SegmentText(k)

\* C7: from a blank segment the result is the closest non-blank segment before
\* the cursor's segment when there is one, however close one after it is, and
\* otherwise the closest non-blank segment after it.
C7_NearestBeforeFirst ==
  (call.fn = "statementAtPosition" /\ SegmentText(CursorSegment) = <<>>
     /\ NonBlankSegments # {})
  => LET before == {k \in NonBlankSegments : k < CursorSegment}
         after  == {k \in NonBlankSegments : k > CursorSegment}
     IN stmt = IF before # {} THEN SegmentText(GreatestOf(before))
               ELSE SegmentText(LeastOf(after))

\* The cursor rested on a blank segment with another statement closer after
\* it than the one before it.
C7_Witness ==
  /\ call.fn = "statementAtPosition"
  /\ doc = <<"a", ";", ";", ";", "b">>
  /\ call.position = 3
  /\ stmt = <<"a">>

\* C27 as stated: when the segment holding the clamped cursor is blank, the
\* statement located is the closest non-blank segment before it when there is
\* one, otherwise the closest one after it, and the empty text exactly when
\* every segment is blank; and every statement located is trimmed and, when
\* not empty, the trimmed text of one segment of the document.
C27_BlankSegmentFallback ==
  LocatesAtCursor =>
    /\ SegmentText(CursorSegment) = <<>> =>
         LET before == {k \in NonBlankSegments : k < CursorSegment}
             after  == {k \in NonBlankSegments : k > CursorSegment}
         IN /\ stmt = IF before # {} THEN SegmentText(GreatestOf(before))
                      ELSE IF after # {} THEN SegmentText(LeastOf(after))
                      ELSE <<>>
            /\ stmt = <<>> <=> NonBlankSegments = {}
    /\ stmt = trim(stmt)
    /\ stmt # <<>> => \E k \in 1..Len(RefSegments(doc)) : stmt = SegmentText(k)

\* C8: with a mounted editor and a selection whose trimmed text is not empty,
\* getSQLAtCursorOrSelection returns exactly the selected text, trimmed.
C8_SelectionVerbatim ==
  (call.fn = "getSQL" /\ call.view /\ trim(slice(doc, call.from, call.to)) # <<>>)
     => stmt = trim(slice(doc, call.from, call.to))

\* A selection spanning a ';' and a blank was returned, which no statement at
\* the cursor equals.
C8_Witness ==
  /\ call.fn = "getSQL" /\ call.view
  /\ doc = <<"a", ";", " ">>
  /\ call.from = 0 /\ call.to = 3
  /\ stmt = <<"a", ";">>

----------------------------------------------------------------------------
\* arrow.ts: formatCell, csvEscape, csvLine, tableToRows and
\* recordBatchesToCSVParts, and the call of tableToRows in runQuery.

DigitChars == <<"0", "1", "2", "3", "4", "5", "6", "7", "8", "9">>

RECURSIVE Digits(_)
\* The decimal digits of a natural number, as Number/BigInt toString writes it.
Digits(n) ==
  IF n < 10 THEN <<DigitChars[n + 1]>>
  ELSE Digits(n \div 10) \o <<DigitChars[(n % 10) + 1]>>

\* The values a cell accessor returns in the model: null, undefined, a
\* bigint, a number (both natural here), a boolean or a string.
Null == [kind |-> "null"]
Undefined == [kind |-> "undefined"]
BigIntOf(n) == [kind |-> "bigint", n |-> n]
StringOf(s) == [kind |-> "string", s |-> s]

formatCell(value) ==
  CASE value.kind \in {"null", "undefined"} -> <<>>
    [] value.kind = "bigint" -> Digits(value.n)
    [] value.kind = "number" -> Digits(value.n)
    [] value.kind = "boolean" -> IF value.b THEN <<"t","r","u","e">>
                                            ELSE <<"f","a","l","s","e">>
    [] OTHER -> value.s

replaceAllQuotes_noDoubling(value) == value

RECURSIVE replaceAllQuotes(_)
\* value.replaceAll('"', '""')
replaceAllQuotes(value) ==
  IF value = <<>> THEN <<>>
  ELSE (IF Head(value) = "\"" THEN <<"\"", "\"">> ELSE <<Head(value)>>)
         \o replaceAllQuotes(Tail(value))

csvEscape_noQuoting(value) == value

csvEscape(value) ==
  IF \E k \in 1..Len(value) : value[k] \in {"\"", ",", "\n", "\r"}
    THEN <<"\"">> \o replaceAllQuotes(value) \o <<"\"">>
    ELSE value

RECURSIVE joinComma(_)
\* cells.join(',')
joinComma(cells) ==
  IF cells = <<>> THEN <<>>
  ELSE IF Len(cells) = 1 THEN cells[1]
  ELSE cells[1] \o <<",">> \o joinComma(Tail(cells))

csvLine_noTerminator(cells) ==
  joinComma([k \in 1..Len(cells) |-> csvEscape(cells[k])])

csvLine(cells) ==
  joinComma([k \in 1..Len(cells) |-> csvEscape(cells[k])]) \o <<"\r", "\n">>

\* The limit runQuery passes to tableToRows.
PreviewLimit == 200
\* opts.flushChars when the caller gives none.
DefaultFlushChars == 1000000

\* Column names of the results, in schema order.
FieldNames == << <<"i", "d">>, <<"a", ",", "b">>, <<"q", "\"">>, <<"z">> >>

\* What the cell accessors of the results hold, besides row numbers.
CellPool == <<StringOf(<<"a">>), Null, StringOf(<<",">>), StringOf(<<"\"">>),
              StringOf(<<"\n">>), StringOf(<<"x", "\r">>),
              [kind |-> "boolean", b |-> TRUE]>>

\* The value at row r of column c (both 0-based) of the result numbered seed:
\* odd columns hold the row number, even columns run through the pool.
cellAt(seed, r, c) ==
  IF c % 2 = 1 THEN BigIntOf(r)
  ELSE CellPool[((seed + r + c) % Len(CellPool)) + 1]

\* An Arrow table (or record batch): its row count, its schema, the columns
\* for which getChildAt returns null, and which data it holds.
ArrowTable(numRows, nfields, absent, seed) ==
  [numRows |-> numRows, fields |-> SubSeq(FieldNames, 1, nfields),
   absent |-> absent, seed |-> seed, data |-> <<>>]

\* cols[colIdx]?.get(rowIdx) on result t, with first the row offset of t in
\* the whole result.
getCell(t, first, rowIdx, colIdx) ==
  IF colIdx \in t.absent \/ colIdx >= Len(t.fields) THEN Undefined
  ELSE IF t.data # <<>> THEN t.data[first + rowIdx + 1][colIdx + 1]
  ELSE cellAt(t.seed, first + rowIdx, colIdx)

rowCount_uncapped(numRows, limit) == numRows

\* Math.min(table.numRows, limit)
rowCount(numRows, limit) == Min(numRows, limit)

\* ---- App.tsx: compareCells, toggleSort, filteredTable and sortedTable

IsDigit(c) == c \in {"0", "1", "2", "3", "4", "5", "6", "7", "8", "9"}

DigitValue(c) == (CHOOSE k \in 1..Len(DigitChars) : DigitChars[k] = c) - 1

RECURSIVE Power10(_)
Power10(n) == IF n = 0 THEN 1 ELSE 10 * Power10(n - 1)

RECURSIVE NatOf(_)
\* The number a run of digits writes.
NatOf(ds) == IF ds = <<>> THEN 0 ELSE 10 * NatOf(SubSeq(ds, 1, Len(ds) - 1)) + DigitValue(ds[Len(ds)])

AllDigits(s) == s # <<>> /\ \A k \in 1..Len(s) : IsDigit(s[k])

\* /^-?\d+(\.\d+)?$/.test(s)
matchesNumeric(s) ==
  LET body == IF s # <<>> /\ s[1] = "-" THEN Tail(s) ELSE s
      dots == {k \in 1..Len(body) : body[k] = "."}
  IN \/ AllDigits(body)
     \/ \E k \in dots : /\ AllDigits(SubSeq(body, 1, k - 1))
                        /\ AllDigits(SubSeq(body, k + 1, Len(body)))

\* Number(s) of a string that matches the numeric pattern, as a mantissa m
\* and a count e of decimals: the number is m / 10^e.
NumberOf(s) ==
  LET neg  == s[1] = "-"
      body == IF neg THEN Tail(s) ELSE s
      dot  == IF \E k \in 1..Len(body) : body[k] = "."
                THEN CHOOSE k \in 1..Len(body) : body[k] = "." ELSE Len(body) + 1
      int  == SubSeq(body, 1, dot - 1)
      frac == SubSeq(body, dot + 1, Len(body))
      m    == NatOf(int \o frac)
  IN [m |-> IF neg THEN 0 - m ELSE m, e |-> Len(frac)]

\* an - bn, scaled by the positive factor 10^(an.e + bn.e): same sign, and
\* zero exactly when the difference is.
numberDiff(an, bn) == an.m * Power10(bn.e) - bn.m * Power10(an.e)

\* a.includes('-') || a.includes('T') || a.includes(':')
hasDateHint(s) == \E k \in 1..Len(s) : s[k] \in {"-", "T", ":"}

\* Date.parse(s) is a number or NaN.
NaN == [nan |-> TRUE, t |-> 0]
TimeOf(t) == [nan |-> FALSE, t |-> t]

\* The year-month form "YYYY-MM" of the date-time string format.
IsYearMonth(s) ==
  /\ Len(s) = 7
  /\ AllDigits(SubSeq(s, 1, 4))
  /\ s[5] = "-"
  /\ AllDigits(SubSeq(s, 6, 7))
  /\ NatOf(SubSeq(s, 6, 7)) \in 1..12

\* Date.parse(s): the months since year 0 for the year-month form (the
\* milliseconds of the code grow with them); text without a digit is no date;
\* what other text parses to is left to the implementation, impl standing
\* for its choice: "strict" (NaN), "early" or "late" (a date before or after
\* every year-month date of the model).
dateParse(s, impl) ==
  IF IsYearMonth(s) THEN TimeOf(12 * NatOf(SubSeq(s, 1, 4)) + NatOf(SubSeq(s, 6, 7)) - 1)
  ELSE IF ~\E k \in 1..Len(s) : IsDigit(s[k]) THEN NaN
  ELSE IF impl = "strict" THEN NaN
  ELSE IF impl = "early" THEN TimeOf(0)
  ELSE TimeOf(12 * 10000)

\* The primary collation weight of a character that is not compared as part
\* of a number: blank, punctuation (- : .), digits, then letters without
\* regard to case.
Letters == LowerChars
weight(c) ==
  CASE c = " " -> 1
    [] c = "-" -> 2
    [] c = ":" -> 3
    [] c = "." -> 4
    [] IsDigit(c) -> 5
    [] OTHER -> 5 + (CHOOSE k \in 1..Len(Letters) : Letters[k] = toLowerChar(c))

\* The length of the run of digits s starts with.
DigitRun(s) ==
  IF \E k \in 1..Len(s) : ~IsDigit(s[k])
    THEN (CHOOSE k \in 1..Len(s) : ~IsDigit(s[k]) /\ \A j \in 1..(k - 1) : IsDigit(s[j])) - 1
    ELSE Len(s)

sign(n) == IF n < 0 THEN -1 ELSE IF n > 0 THEN 1 ELSE 0

RECURSIVE localeCompare(_, _)
\* a.localeCompare(b, undefined, {numeric: true, sensitivity: 'base'}): runs
\* of digits compare by the number they write, other characters by primary
\* weight, a proper prefix before what it is a prefix of.
localeCompare(a, b) ==
  IF a = <<>> /\ b = <<>> THEN 0
  ELSE IF a = <<>> THEN -1
  ELSE IF b = <<>> THEN 1
  ELSE IF IsDigit(a[1]) /\ IsDigit(b[1])
    THEN LET na == NatOf(SubSeq(a, 1, DigitRun(a)))
             nb == NatOf(SubSeq(b, 1, DigitRun(b)))
         IN IF na # nb THEN sign(na - nb)
            ELSE localeCompare(SubSeq(a, DigitRun(a) + 1, Len(a)),
                               SubSeq(b, DigitRun(b) + 1, Len(b)))
  ELSE IF weight(a[1]) # weight(b[1]) THEN sign(weight(a[1]) - weight(b[1]))
  ELSE localeCompare(Tail(a), Tail(b))

compareCells_lexicalOnly(aRaw, bRaw, impl) ==
  LET a == trim(aRaw)
      b == trim(bRaw)
  IN IF a = <<>> /\ b = <<>> THEN 0
     ELSE IF a = <<>> THEN 1
     ELSE IF b = <<>> THEN -1
     ELSE localeCompare(a, b)

\* compareCells(aRaw, bRaw), in a browser whose Date.parse is impl.
compareCells(aRaw, bRaw, impl) ==
  LET a == trim(aRaw)
      b == trim(bRaw)
  IN IF a = <<>> /\ b = <<>> THEN 0
     ELSE IF a = <<>> THEN 1
     ELSE IF b = <<>> THEN -1
     ELSE IF matchesNumeric(a) /\ matchesNumeric(b)
       THEN numberDiff(NumberOf(a), NumberOf(b))
     ELSE IF hasDateHint(a) /\ hasDateHint(b)
               /\ ~dateParse(a, impl).nan /\ ~dateParse(b, impl).nan
       THEN dateParse(a, impl).t - dateParse(b, impl).t
     ELSE localeCompare(a, b)

\* ---- App.tsx: the query tabs

\* The template of the model, with the first characters of its text.
TEMPLATE_QUERIES == [name \in {<<"CUR - Savings Plans">>} |-> <<"-", "-", " ", "A">>]
Categories == {"scripts", "bookmarks", "templates"}

\* `Script-${n}`
ScriptName(n) == <<"S", "c", "r", "i", "p", "t", "-">> \o Digits(n)

\* What loadTabsFromStorage returns when the storage holds nothing.
DefaultTabs ==
  <<[id |-> 1, name |-> ScriptName(1), sql |-> DEFAULT_SQL, isDirty |-> FALSE,
     category |-> "scripts"]>>

\* What Date.now() can read: wall-clock milliseconds, all after 1. String()
\* of two readings is the same text exactly when the readings are equal, so an
\* id is kept as the number it spells ('1' as 1).
Times == 2..(1 + MaxClock)

\* ts.filter(...), given the positions of the elements the callback accepts.
filter(ts, accepted) ==
  LET idx == SeqOfIndices(accepted, 0)
  IN [k \in 1..Len(idx) |-> ts[idx[k]]]

\* tabs[0]?.id || '1'
firstIdOr1(ts) == IF Len(ts) > 0 THEN ts[1].id ELSE 1

\* loadTabsFromStorage: the storage holds what saveTabsToStorage put there;
\* JSON.parse gives back the list JSON.stringify was given (texts and
\* booleans only).
loadTabsFromStorage(item) == IF item = <<>> THEN DefaultTabs ELSE item[1]

\* The effect on [tabs]: saveTabsToStorage.
saveTabsToStorage(ts) == <<ts>>

\* The wall clock reads t.
ClockReads(t) ==
  /\ t # now
  /\ now' = t
  /\ UNCHANGED <<tabs, activeTabId, stored, selectedCategory>>

\* A category button of the sidebar is clicked.
SetSelectedCategory(category) ==
  /\ category # selectedCategory
  /\ selectedCategory' = category
  /\ UNCHANGED <<tabs, activeTabId, stored, now>>

\* createNewTab(category), lines 387-399, and the effect that saves the tabs.
createNewTab(category) ==
  /\ Len(tabs) < MaxTabs
  /\ LET newId == now
         newTab == [id |-> newId,
                    name |-> ScriptName(Len(filter(tabs, {k \in 1..Len(tabs) : tabs[k].category = category})) + 1),
                    sql |-> DEFAULT_SQL, isDirty |-> FALSE, category |-> category]
     IN /\ tabs' = Append(tabs, newTab)
        /\ activeTabId' = newId
  /\ selectedCategory' = category
  /\ stored' = saveTabsToStorage(tabs')
  /\ UNCHANGED now

\* A "+" button is clicked: lines 639 and 805.
ClickNewTab == createNewTab(selectedCategory)

\* A template button is clicked: lines 676-688.
ClickTemplate(name) ==
  /\ selectedCategory = "templates"
  /\ Len(tabs) < MaxTabs
  /\ LET newId == now
         newTab == [id |-> newId, name |-> name, sql |-> TEMPLATE_QUERIES[name],
                    isDirty |-> FALSE, category |-> "scripts"]
     IN /\ tabs' = Append(tabs, newTab)
        /\ activeTabId' = newId
  /\ selectedCategory' = "scripts"
  /\ stored' = saveTabsToStorage(tabs')
  /\ UNCHANGED now

\* closeTab(tabId), lines 401-408, from the close button of a tab that is
\* listed, and the effect that saves the tabs.
closeTab(tabId) ==
  /\ \E k \in 1..Len(tabs) : tabs[k].id = tabId /\ tabs[k].category = selectedCategory
  /\ IF Len(tabs) = 1
       THEN UNCHANGED <<tabs, activeTabId, stored>>
       ELSE LET newTabs == filter(tabs, {k \in 1..Len(tabs) : tabs[k].id # tabId})
            IN /\ tabs' = newTabs
               /\ activeTabId' = IF activeTabId = tabId THEN firstIdOr1(newTabs)
                                 ELSE activeTabId
               /\ stored' = saveTabsToStorage(newTabs)
  /\ UNCHANGED <<selectedCategory, now>>

\* A listed tab is clicked: lines 650 and 768.
ClickTab(tabId) ==
  /\ \E k \in 1..Len(tabs) : tabs[k].id = tabId /\ tabs[k].category = selectedCategory
  /\ tabId # activeTabId
  /\ activeTabId' = tabId
  /\ UNCHANGED <<tabs, stored, selectedCategory, now>>

\* updateTabSQL's updater.
updateTabSQL(prev_, tabId, sql) ==
  [k \in 1..Len(prev_) |->
     IF prev_[k].id = tabId THEN [prev_[k] EXCEPT !.sql = sql, !.isDirty = TRUE]
     ELSE prev_[k]]

\* The editor's text changes: line 819.
EditSQL(sql) ==
  /\ tabs' = updateTabSQL(tabs, activeTabId, sql)
  /\ tabs' # tabs
  /\ stored' = saveTabsToStorage(tabs')
  /\ UNCHANGED <<activeTabId, selectedCategory, now>>

\* The page is loaded again: App's state is built anew from the storage.
Reload ==
  /\ tabs' = loadTabsFromStorage(stored)
  /\ activeTabId' = firstIdOr1(tabs')
  /\ selectedCategory' = "scripts"
  /\ stored' = saveTabsToStorage(tabs')
  /\ <<tabs', activeTabId', selectedCategory'>> # <<tabs, activeTabId, selectedCategory>>
  /\ UNCHANGED now

\* ---- the preview on screen: runQuery around tableToRows, the sort state,
\* the row filter and the sortedTable memo.

NoSort == [null |-> TRUE]
NoTable == [shown |-> FALSE]
NoRunQuery == [pc |-> "idle", activeTabId |-> ""]

toggleSort_noUnsorted(prev_, col) ==
  IF prev_ = NoSort \/ prev_.col # col THEN [col |-> col, dir |-> "asc"]
  ELSE IF prev_.dir = "asc" THEN [col |-> col, dir |-> "desc"]
  ELSE [col |-> col, dir |-> "asc"]

\* The updater toggleSort(col) hands to setSort.
toggleSort(prev_, col) ==
  IF prev_ = NoSort \/ prev_.col # col THEN [col |-> col, dir |-> "asc"]
  ELSE IF prev_.dir = "asc" THEN [col |-> col, dir |-> "desc"]
  ELSE NoSort

\* s.includes(q)
includes(s, q) == \E k \in 0..(Len(s) - Len(q)) : SubSeq(s, k + 1, k + Len(q)) = q

\* The positions (1-based, in order) of the rows of tbl the row filter keeps.
filteredRows(tbl, search) ==
  LET q == toLowerCase(trim(search))
  IN IF q = <<>> THEN [k \in 1..Len(tbl.rows) |-> k]
     ELSE SeqOfIndices({k \in 1..Len(tbl.rows) :
                          \E c \in 1..Len(tbl.rows[k]) :
                            includes(toLowerCase(tbl.rows[k][c]), q)}, 0)

\* The filteredTable memo of a table that is on screen.
filteredTable(tbl, search) ==
  LET kept == filteredRows(tbl, search)
  IN [columns |-> tbl.columns, rows |-> [k \in 1..Len(kept) |-> tbl.rows[kept[k]]]]

\* The cell texts of the results that are sorted.
SortCells == {<<" ">>, <<"2">>, <<"1", "0">>, <<"1", ".", "5">>,
              <<"1", ".", "5", "0">>, <<"1", ".", "6", "a">>, <<"-", "1">>,
              <<"2", "0", "1", "9", "-", "1", "2">>}

\* The browsers' Date.parse, by what it makes of text outside the standard
\* forms.
DateImpls == {"strict", "early", "late"}

\* compareCells on the cell texts of those results (the countdown column's
\* included), tabulated.
CellTexts == SortCells \cup {Digits(k) : k \in 0..MaxSortRows} \cup {<<>>}
Compared ==
  [impl \in DateImpls |->
     [aRaw \in CellTexts |-> [bRaw \in CellTexts |-> compareCells(aRaw, bRaw, impl)]]]

\* row[sort.col] ?? ''
cellOf(row, col) == IF col < Len(row) THEN row[col + 1] ELSE <<>>

\* The comparator sortedTable hands to Array.prototype.sort, on the rows at
\* positions ia and ib (1-based) of the filtered rows.
sortComparator(rows, ia, ib, s, impl) ==
  LET dir == IF s.dir = "asc" THEN 1 ELSE -1
      cmp == Compared[impl][cellOf(rows[ia], s.col)][cellOf(rows[ib], s.col)]
  IN IF cmp # 0 THEN cmp * dir ELSE ia - ib

\* The orders n rows can be put in: p[k] is the row that comes k-th.
Orders(n) == Permutations(1..n)

\* Array.prototype.sort with that comparator: the order in which every row
\* comes before the rows the comparator puts after it; when the comparator is
\* not consistent (no such order exists), the order is the implementation's.
arraySort(rows, s, impl) ==
  LET n == Len(rows)
      cmp == [ia \in 1..n, ib \in 1..n |-> sortComparator(rows, ia, ib, s, impl)]
      sorted == {p \in Orders(n) : \A i, j \in 1..n : i < j => cmp[p[i], p[j]] < 0}
  IN IF sorted # {} THEN sorted ELSE Orders(n)

\* The values the sortedTable memo can take for a table on screen; order
\* tells which filtered row each of its rows is.
sortedTable(tbl, search, s, impl) ==
  LET ft == filteredTable(tbl, search)
  IN IF s = NoSort
       THEN {[shown |-> TRUE, columns |-> ft.columns, rows |-> ft.rows,
              order |-> [k \in 1..Len(ft.rows) |-> k]]}
       ELSE {[shown |-> TRUE, columns |-> ft.columns,
              rows |-> [k \in 1..Len(ft.rows) |-> ft.rows[p[k]]], order |-> p] :
               p \in arraySort(ft.rows, s, impl)}

\* A two-column result: the given texts row by row, and a countdown.
ArrowTableOf(texts) ==
  [numRows |-> Len(texts), fields |-> SubSeq(FieldNames, 1, 2), absent |-> {},
   seed |-> 0,
   data |-> [k \in 1..Len(texts) |-> <<StringOf(texts[k]), BigIntOf(Len(texts) - k)>>]]

SortTables == UNION {[1..n -> SortCells] : n \in 0..MaxSortRows}

RowSearches == {<<>>, <<" ", "A">>}

\* markTabClean's updater.
markTabClean(prev_, tabId) ==
  [k \in 1..Len(prev_) |->
     IF prev_[k].id = tabId THEN [prev_[k] EXCEPT !.isDirty = FALSE] ELSE prev_[k]]

\* The page is opened in a browser, whose Date.parse is impl.
LoadPage(impl) ==
  /\ dateImpl = "unknown"
  /\ dateImpl' = impl
  /\ UNCHANGED <<running, sort, rowSearch, memo, rq>>

\* runQuery leaving its try block with an error, without its finally.
RunQueryFail_staysRunning(msg) ==
  /\ error' = msg
  /\ running' = running
  /\ rq' = [rq EXCEPT !.pc = "failed"]

\* runQuery leaves its try block with an error: catch, then finally.
RunQueryFail(msg) ==
  /\ error' = msg
  /\ running' = FALSE
  /\ rq' = [rq EXCEPT !.pc = "failed"]

\* runQuery(sql) is entered and runs to its first await, inside ensureDbReady.
runQuery ==
  /\ error' = ""
  /\ running' = TRUE
  /\ resultInfo' = ""
  /\ table' = "undefined"
  /\ sort' = NoSort
  /\ rowSearch' = <<>>
  /\ memo' = NoTable
  /\ IF dbStatus \in {"ready", "loading"}
       THEN /\ rq' = [pc |-> "awaitQuery", activeTabId |-> activeTabId]
            /\ UNCHANGED <<dbStatus, statePromise, inits>>
       ELSE /\ dbStatus' = "loading"
            /\ statePromise' = getDuckDB
            /\ inits' = initsStarted
            /\ rq' = [pc |-> "awaitInit", activeTabId |-> activeTabId]
  /\ UNCHANGED <<files, folderName, parquetTableName, importInfo, loadingFiles, imp, ct,
                 registered, views, callers, dateImpl, tabVars>>

\* The run button, enabled unless running or exporting, is pressed.
RunQueryStart ==
  /\ dateImpl # "unknown"
  /\ ~running /\ ~exporting
  /\ runQuery

\* Mod-Enter is pressed in the editor: executeQueryKeymap runs the statement
\* when no query is running and the engine is ready.
ModEnter ==
  /\ dateImpl # "unknown"
  /\ ~running /\ dbStatus = "ready"
  /\ runQuery

\* ensureDbReady resumes after await getDuckDB().
RunQueryInitDone ==
  /\ rq.pc = "awaitInit"
  /\ statePromise \in {"resolved", "rejected"}
  /\ IF statePromise = "resolved"
       THEN /\ dbStatus' = "ready"
            /\ rq' = [rq EXCEPT !.pc = "awaitQuery"]
            /\ UNCHANGED <<error, running>>
       ELSE /\ dbStatus' = "idle"
            /\ RunQueryFail("init failed")
  /\ UNCHANGED <<files, folderName, parquetTableName, resultInfo, importInfo, table,
                 loadingFiles, imp, ct, engineVars, sort, rowSearch, memo, dateImpl,
                 tabVars>>

\* await query(statement) rejects.
RunQueryReject ==
  /\ rq.pc = "awaitQuery"
  /\ statePromise \in {"resolved", "rejected"}
  /\ RunQueryFail("engine error")
  /\ UNCHANGED <<dbStatus, files, folderName, parquetTableName, resultInfo, importInfo,
                 table, loadingFiles, imp, ct, engineVars, sort, rowSearch, memo,
                 dateImpl, tabVars>>

\* A column header of the table on screen is clicked.
ToggleSort(col) ==
  /\ memo.shown
  /\ col \in 0..(Len(table.columns) - 1)
  /\ sort' = toggleSort(sort, col)
  /\ memo' \in sortedTable(table, rowSearch, sort', dateImpl)
  /\ UNCHANGED <<running, rowSearch, rq, dateImpl>>

\* The row filter is typed into.
SetRowSearch(value) ==
  /\ memo.shown
  /\ ~running /\ ~exporting
  /\ value # rowSearch
  /\ rowSearch' = value
  /\ memo' \in sortedTable(table, value, sort, dateImpl)
  /\ UNCHANGED <<running, sort, rq, dateImpl>>

\* The reset button is clicked: lines 944-951.
ResetSQL ==
  /\ ~running /\ ~exporting
  /\ dateImpl # "unknown"
  /\ tabs' = updateTabSQL(tabs, activeTabId, DEFAULT_SQL)
  /\ stored' = saveTabsToStorage(tabs')
  /\ error' = ""
  /\ resultInfo' = ""
  /\ table' = "undefined"
  /\ sort' = NoSort
  /\ rowSearch' = <<>>
  /\ memo' = NoTable
  /\ <<tabs', error', resultInfo', sort', rowSearch', memo'>>
       # <<tabs, error, resultInfo, sort, rowSearch, memo>>
  /\ UNCHANGED <<dbStatus, files, folderName, parquetTableName, importInfo,
                 loadingFiles, imp, ct, running, rq, dateImpl, activeTabId,
                 selectedCategory, now>>


\* ---- tableToRows and its caller runQuery

NoPreview == [pc |-> "idle", caller |-> "none",
              table |-> ArrowTable(0, 0, {}, 0), limit |-> 0,
              rowIdx |-> 0, rows |-> <<>>, reads |-> {},
              returned |-> [columns |-> <<>>, rows |-> <<>>]]

\* Row counts and limits of the model: small ones, and those around the
\* workbench's limit.
RowCounts == 0..MaxSmallRows \cup (PreviewLimit - 1)..(PreviewLimit + 1)
Limits == 0..MaxSmallRows \cup {PreviewLimit}
AbsentSets(nfields) == IF nfields = 0 THEN {{}} ELSE {{}, {nfields - 1}}

\* tableToRows(table, limit) is entered: lines 32-36.
CallTableToRows(caller, t, limit) ==
  /\ prev.pc # "looping"
  /\ prev' = [NoPreview EXCEPT !.pc = "looping", !.caller = caller, !.table = t,
                               !.limit = limit]

\* runQuery, after `await query(statement)` gave result t: line 435.
RunQueryPreview(t) ==
  /\ rq.pc = "awaitQuery"
  /\ statePromise = "resolved"
  /\ rq' = [rq EXCEPT !.pc = "formatting"]
  /\ CallTableToRows("runQuery", t, PreviewLimit)
  /\ UNCHANGED <<running, sort, rowSearch, memo, dateImpl, tabVars>>

\* One iteration of the row loop of tableToRows, its column loop included.
ReadRow ==
  /\ prev.pc = "looping"
  /\ prev.rowIdx < rowCount(prev.table.numRows, prev.limit)
  /\ LET t   == prev.table
         row == [c \in 1..Len(t.fields) |->
                   formatCell(getCell(t, 0, prev.rowIdx, c - 1))]
         got == IF \E c \in 0..(Len(t.fields) - 1) : c \notin t.absent
                  THEN {prev.rowIdx} ELSE {}
     IN prev' = [prev EXCEPT !.rows = Append(@, row), !.rowIdx = @ + 1,
                             !.reads = @ \cup got]

\* tableToRows returns; in runQuery the rows become the table on screen and
\* the result line, the tab is marked clean and running ends (lines 436-445).
ReturnRows ==
  /\ prev.pc = "looping"
  /\ prev.rowIdx >= rowCount(prev.table.numRows, prev.limit)
  /\ LET rows == [columns |-> prev.table.fields, rows |-> prev.rows]
     IN /\ prev' = [prev EXCEPT !.pc = "returned", !.returned = rows]
        /\ IF prev.caller = "runQuery"
             THEN /\ table' = rows
                  /\ resultInfo' = <<"Linhas: ", prev.table.numRows, " (mostrando ",
                                     Len(rows.rows), ") · Colunas: ", Len(rows.columns)>>
                  /\ memo' \in sortedTable(rows, rowSearch, sort, dateImpl)
                  /\ tabs' = markTabClean(tabs, rq.activeTabId)
                  /\ stored' = tabs'
                  /\ running' = FALSE
                  /\ rq' = [rq EXCEPT !.pc = "done"]
             ELSE UNCHANGED <<table, resultInfo, memo, tabs, stored, running, rq>>
  /\ UNCHANGED <<sort, rowSearch, dateImpl, activeTabId, selectedCategory, now>>
  /\ UNCHANGED <<dbStatus, files, folderName, parquetTableName, error, importInfo,
                 loadingFiles, imp, ct>>

\* ---- recordBatchesToCSVParts

\* opts.header and opts.flushChars: absent (<<>>) or given.
HeaderOpts == {<<>>, <<TRUE>>, <<FALSE>>}
FlushOpts == {<<>>, <<1>>, <<MaxFlush>>}

NoExport == [pc |-> "idle", includeHeader |-> TRUE, flushChars |-> 0,
             parts |-> <<>>, buffer |-> <<>>, headerWritten |-> FALSE,
             columns |-> 0, rows |-> 0,
             batch |-> ArrowTable(0, 0, {}, 0), rowIdx |-> 0,
             nfields |-> 0, seed |-> 0, batches |-> 0, delivered |-> 0,
             returned |-> [parts |-> <<>>, rows |-> 0, columns |-> 0]]

\* recordBatchesToCSVParts(batches, opts) is entered (lines 51-58) on the
\* stream of a result with nfields columns.
CallRecordBatchesToCSVParts(header, flush, nfields, seed) ==
  /\ exp.pc \in {"idle", "returned", "threw"}
  /\ exp' = [NoExport EXCEPT
               !.pc = "iterating",
               !.includeHeader = IF header = <<>> THEN TRUE ELSE header[1],
               !.flushChars = IF flush = <<>> THEN DefaultFlushChars ELSE flush[1],
               !.nfields = nfields, !.seed = seed]

\* The stream delivers its next batch, of numRows rows: lines 60-65.
NextBatch(numRows) ==
  /\ \/ exp.pc = "iterating"
     \/ exp.pc = "inBatch" /\ exp.rowIdx >= exp.batch.numRows
  /\ exp.batches < MaxBatches
  /\ exp.delivered + numRows <= PreviewLimit + 1
  /\ LET batch == ArrowTable(numRows, exp.nfields, {}, exp.seed)
         first == ~exp.headerWritten
     IN exp' = [exp EXCEPT
                  !.pc = "inBatch", !.batch = batch, !.rowIdx = 0,
                  !.batches = @ + 1, !.delivered = @ + numRows,
                  !.columns = IF first THEN Len(batch.fields) ELSE @,
                  !.buffer = IF first /\ exp.includeHeader
                               THEN @ \o csvLine(batch.fields) ELSE @,
                  !.headerWritten = TRUE]

\* The row loop with the comparison of line 75 read strictly: a buffer of
\* exactly flushChars characters stays pending.
EmitRow_flushLate ==
  /\ exp.pc = "inBatch"
  /\ exp.rowIdx < exp.batch.numRows
  /\ LET row == [c \in 1..exp.columns |->
                   formatCell(getCell(exp.batch, exp.delivered - exp.batch.numRows,
                                      exp.rowIdx, c - 1))]
         buffer == exp.buffer \o csvLine(row)
         flush == Len(buffer) > exp.flushChars
     IN exp' = [exp EXCEPT
                  !.rows = @ + 1, !.rowIdx = @ + 1,
                  !.parts = IF flush THEN Append(@, buffer) ELSE @,
                  !.buffer = IF flush THEN <<>> ELSE buffer]

\* One iteration of the row loop: lines 67-79.
EmitRow ==
  /\ exp.pc = "inBatch"
  /\ exp.rowIdx < exp.batch.numRows
  /\ LET row == [c \in 1..exp.columns |->
                   formatCell(getCell(exp.batch, exp.delivered - exp.batch.numRows,
                                      exp.rowIdx, c - 1))]
         buffer == exp.buffer \o csvLine(row)
         flush == Len(buffer) >= exp.flushChars
     IN exp' = [exp EXCEPT
                  !.rows = @ + 1, !.rowIdx = @ + 1,
                  !.parts = IF flush THEN Append(@, buffer) ELSE @,
                  !.buffer = IF flush THEN <<>> ELSE buffer]

\* The stream ends: lines 82-87.
StreamEnd_emptySuccess ==
  /\ \/ exp.pc = "iterating"
     \/ exp.pc = "inBatch" /\ exp.rowIdx >= exp.batch.numRows
  /\ LET parts == IF exp.buffer # <<>> THEN Append(exp.parts, exp.buffer)
                  ELSE exp.parts
     IN exp' = [exp EXCEPT
                  !.pc = "returned", !.parts = parts,
                  !.returned = [parts |-> parts, rows |-> exp.rows,
                                columns |-> exp.columns]]

StreamEnd ==
  /\ \/ exp.pc = "iterating"
     \/ exp.pc = "inBatch" /\ exp.rowIdx >= exp.batch.numRows
  /\ IF ~exp.headerWritten
       THEN exp' = [exp EXCEPT !.pc = "threw"]
       ELSE LET parts == IF exp.buffer # <<>> THEN Append(exp.parts, exp.buffer)
                         ELSE exp.parts
            IN exp' = [exp EXCEPT
                         !.pc = "returned", !.parts = parts,
                         !.returned = [parts |-> parts, rows |-> exp.rows,
                                       columns |-> exp.columns]]

RECURSIVE Concat(_)
\* new Blob(parts): the parts, one after the other.
Concat(parts) == IF parts = <<>> THEN <<>> ELSE Head(parts) \o Concat(Tail(parts))

\* ---- exportCSV (App.tsx), around recordBatchesToCSVParts

NoExportCSV == [pc |-> "idle"]

ExportErrorMessage == "Query não retornou schema para exportação."

\* The export leaving its try block with an error that its catch does not
\* show.
ExportFail_keepsError(msg) ==
  /\ error' = error
  /\ exporting' = FALSE
  /\ xp' = [xp EXCEPT !.pc = "failed"]

\* The export leaves its try block with an error: catch, then finally.
ExportFail(msg) ==
  /\ error' = msg
  /\ exporting' = FALSE
  /\ xp' = [xp EXCEPT !.pc = "failed"]

\* The export button is pressed: exportCSV runs to its first await, inside
\* ensureDbReady.
ExportCSVStart ==
  /\ ~running /\ ~exporting
  /\ error' = ""
  /\ exporting' = TRUE
  /\ IF dbStatus \in {"ready", "loading"}
       THEN /\ xp' = [xp EXCEPT !.pc = "awaitSend"]
            /\ UNCHANGED <<dbStatus, statePromise, inits>>
       ELSE /\ dbStatus' = "loading"
            /\ statePromise' = getDuckDB
            /\ inits' = initsStarted
            /\ xp' = [xp EXCEPT !.pc = "awaitInit"]
  /\ UNCHANGED <<files, folderName, parquetTableName, resultInfo, importInfo, table,
                 loadingFiles, imp, ct, registered, views, callers, downloads, exp>>

\* ensureDbReady resumes after await getDuckDB().
ExportInitDone ==
  /\ xp.pc = "awaitInit"
  /\ statePromise \in {"resolved", "rejected"}
  /\ IF statePromise = "resolved"
       THEN /\ dbStatus' = "ready"
            /\ xp' = [xp EXCEPT !.pc = "awaitSend"]
            /\ UNCHANGED <<error, exporting>>
       ELSE /\ dbStatus' = "idle"
            /\ ExportFail("init failed")
  /\ UNCHANGED <<files, folderName, parquetTableName, resultInfo, importInfo, table,
                 loadingFiles, imp, ct, engineVars, downloads, exp>>

\* await send(statement) settles: the engine opens the stream of a result of
\* nfields columns, or rejects; on success recordBatchesToCSVParts(batches)
\* is entered, without opts.
ExportSend(ok, nfields, seed) ==
  /\ xp.pc = "awaitSend"
  /\ statePromise \in {"resolved", "rejected"}
  /\ IF ok /\ statePromise = "resolved"
       THEN /\ xp' = [xp EXCEPT !.pc = "streaming"]
            /\ CallRecordBatchesToCSVParts(<<>>, <<>>, nfields, seed)
            /\ UNCHANGED <<error, exporting>>
       ELSE /\ ExportFail("engine error")
            /\ UNCHANGED exp
  /\ UNCHANGED <<dbStatus, files, folderName, parquetTableName, resultInfo,
                 importInfo, table, loadingFiles, imp, ct, engineVars, downloads>>

\* await recordBatchesToCSVParts(batches) settles: the Blob of the parts is
\* downloaded and the result line set, or the error is shown; then finally.
ExportCSVResume ==
  /\ xp.pc = "streaming"
  /\ exp.pc \in {"returned", "threw"}
  /\ IF exp.pc = "returned"
       THEN /\ downloads' = Append(downloads, Concat(exp.returned.parts))
            /\ resultInfo' = <<"CSV exportado: ", exp.returned.rows, " linhas">>
            /\ exporting' = FALSE
            /\ xp' = [xp EXCEPT !.pc = "done"]
            /\ UNCHANGED error
       ELSE /\ ExportFail(ExportErrorMessage)
            /\ UNCHANGED <<downloads, resultInfo>>
  /\ UNCHANGED <<dbStatus, files, folderName, parquetTableName, importInfo, table,
                 loadingFiles, imp, ct, engineVars, exp>>

\* ---- csvLine on its own: the row a caller hands it, and the line it gives.

CsvChars == {",", "\"", "\r", "\n", "a"}

\* The row grows by an empty cell.
NewCell ==
  /\ line = <<>>
  /\ Len(lineCells) < MaxCsvCells
  /\ lineCells' = Append(lineCells, <<>>)
  /\ UNCHANGED line

\* The last cell of the row grows by character c.
CellChar(c) ==
  /\ line = <<>>
  /\ lineCells # <<>>
  /\ Len(Concat(lineCells)) < MaxCsvChars
  /\ lineCells' = [lineCells EXCEPT ![Len(lineCells)] = Append(@, c)]
  /\ UNCHANGED line

\* csvLine(cells) is called on the row.
CallCsvLine ==
  /\ line = <<>>
  /\ lineCells # <<>>
  /\ line' = csvLine(lineCells)
  /\ UNCHANGED lineCells

----------------------------------------------------------------------------
\* What the claims about the formatter are stated against.

\* C9: a preview of n rows under limit L has min(n, L) rows, the first ones in
\* their order, each of columns.length cells; no row at or past L (or past n)
\* is read; runQuery previews under 200, so the table on screen never has
\* more than 200 rows.
C9_PreviewCapped ==
  /\ \A r \in prev.reads : r < prev.limit /\ r < prev.table.numRows
  /\ prev.pc = "returned" =>
       /\ Len(prev.returned.rows) = Min(prev.table.numRows, prev.limit)
       /\ Len(prev.returned.columns) = Len(prev.table.fields)
       /\ \A k \in 1..Len(prev.returned.rows) :
            /\ Len(prev.returned.rows[k]) = Len(prev.returned.columns)
            /\ \A c \in 1..Len(prev.returned.columns) :
                 prev.returned.rows[k][c] =
                   IF c - 1 \in prev.table.absent THEN <<>>
                   ELSE formatCell(cellAt(prev.table.seed, k - 1, c - 1))
       /\ prev.caller = "runQuery" =>
            /\ prev.limit = 200
            /\ table = prev.returned
            /\ Len(table.rows) <= 200

\* runQuery previewed a result of more than 200 rows, with a column whose
\* accessor is missing, and put 200 rows on screen.
C9_Witness ==
  /\ prev.pc = "returned"
  /\ prev.caller = "runQuery"
  /\ prev.table.numRows = 201
  /\ prev.table.absent # {}
  /\ Len(table.rows) = 200
  /\ prev.reads = 0..199

RECURSIVE parseRecord(_, _, _, _)
\* A CSV reader over one record of s, from index i: fields are separated by
\* commas outside quotes, the record ends at CR LF outside quotes (or with
\* s), a doubled quote inside quotes is a quote. Yields the number of fields
\* of the record and the index after it.
parseRecord(s, i, inQuotes, nf) ==
  IF i > Len(s) THEN [nf |-> nf, next |-> i]
  ELSE IF inQuotes
    THEN IF s[i] = "\"" /\ i < Len(s) /\ s[i + 1] = "\""
           THEN parseRecord(s, i + 2, TRUE, nf)
           ELSE parseRecord(s, i + 1, s[i] # "\"", nf)
  ELSE IF s[i] = "\"" THEN parseRecord(s, i + 1, TRUE, nf)
  ELSE IF s[i] = "," THEN parseRecord(s, i + 1, FALSE, nf + 1)
  ELSE IF s[i] = "\r" /\ i < Len(s) /\ s[i + 1] = "\n"
    THEN [nf |-> nf, next |-> i + 2]
  ELSE parseRecord(s, i + 1, FALSE, nf)

RECURSIVE parseCSV(_, _, _)
\* The number of fields of each record of s from index i on.
parseCSV(s, i, recs) ==
  IF i > Len(s) THEN recs
  ELSE LET r == parseRecord(s, i, FALSE, 1)
       IN parseCSV(s, r.next, Append(recs, r.nf))

FieldCounts(s) == parseCSV(s, 1, <<>>)

\* C10: an export of batches totalling R rows of C >= 1 columns is a document
\* of R lines, and one more iff the header is enabled, each of C fields; the
\* returned row count is R, also past 200, and the column count is C.
C10_ExportShape ==
  exp.pc = "returned" =>
    LET counts == FieldCounts(Concat(exp.returned.parts))
    IN /\ Len(counts) = exp.delivered + (IF exp.includeHeader THEN 1 ELSE 0)
       /\ \A k \in 1..Len(counts) : counts[k] = exp.nfields
       /\ exp.returned.rows = exp.delivered
       /\ exp.returned.columns = exp.nfields

\* An export of more than 200 rows in two batches returned, flushed in
\* several parts, with a cell that needed quoting.
C10_Witness ==
  /\ exp.pc = "returned"
  /\ exp.returned.rows = 201
  /\ exp.batches >= 2
  /\ exp.nfields >= 2
  /\ Len(exp.returned.parts) >= 2
  /\ \E k \in 1..(Len(Concat(exp.returned.parts)) - 2) :
       SubSeq(Concat(exp.returned.parts), k, k + 2) = <<"\"", ",", "\"">>

RECURSIVE readRecord(_, _, _, _, _)
\* A standard CSV reader over one record of s, from index i: a field is
\* quoted or bare; inside quotes a doubled quote is a quote and everything
\* else, CR and LF included, is text; outside quotes a comma ends the field and
\* CR LF ends the record. Yields the fields and the index after the record.
readRecord(s, i, inQuotes, field, fields) ==
  IF i > Len(s) THEN [fields |-> Append(fields, field), next |-> i, closed |-> FALSE]
  ELSE IF inQuotes
    THEN IF s[i] = "\"" /\ i < Len(s) /\ s[i + 1] = "\""
           THEN readRecord(s, i + 2, TRUE, Append(field, "\""), fields)
         ELSE IF s[i] = "\"" THEN readRecord(s, i + 1, FALSE, field, fields)
         ELSE readRecord(s, i + 1, TRUE, Append(field, s[i]), fields)
  ELSE IF s[i] = "\"" THEN readRecord(s, i + 1, TRUE, field, fields)
  ELSE IF s[i] = "," THEN readRecord(s, i + 1, FALSE, <<>>, Append(fields, field))
  ELSE IF s[i] = "\r" /\ i < Len(s) /\ s[i + 1] = "\n"
    THEN [fields |-> Append(fields, field), next |-> i + 2, closed |-> TRUE]
  ELSE readRecord(s, i + 1, FALSE, Append(field, s[i]), fields)

\* C11: the line csvLine writes for a row, read back by a standard CSV reader,
\* is one complete record that ends with the line and whose fields are the
\* row's cells, in their positions.
C11_RoundTrip ==
  line # <<>> =>
    LET r == readRecord(line, 1, FALSE, <<>>, <<>>)
    IN /\ r.closed
       /\ r.next = Len(line) + 1
       /\ r.fields = lineCells

\* A row of two lineCells, one holding a quote and a comma and the other a line
\* break, was written.
C11_Witness ==
  /\ line # <<>>
  /\ Len(lineCells) = 2
  /\ lineCells[1] = <<"\"", ",">>
  /\ lineCells[2] = <<"\r", "\n">>

RECURSIVE WholeRecords(_, _, _)
\* Whether s from index i on is a sequence of complete records (each closed
\* by its CR LF) of n fields each.
WholeRecords(s, i, n) ==
  IF i > Len(s) THEN TRUE
  ELSE LET r == readRecord(s, i, FALSE, <<>>, <<>>)
       IN r.closed /\ Len(r.fields) = n /\ WholeRecords(s, r.next, n)

IsPrefix(s, t) == Len(s) <= Len(t) /\ SubSeq(t, 1, Len(s)) = s

\* C12: at every point of an export each chunk emitted so far is a non-empty
\* sequence of complete lines, and every step leaves the chunks emitted
\* before it as they were, at most appending to them.
C12_ChunksAreWholeLines ==
  /\ [](\A k \in 1..Len(exp.parts) :
          exp.parts[k] # <<>> /\ WholeRecords(exp.parts[k], 1, exp.columns))
  /\ [][IsPrefix(exp.parts, exp'.parts)]_vars

\* In the middle of a batch two chunks are out, one of them holding a quoted
\* line break, and a line waits in the buffer.
C12_Witness ==
  /\ exp.pc = "inBatch"
  /\ exp.rowIdx < exp.batch.numRows
  /\ Len(exp.parts) >= 2
  /\ exp.buffer # <<>>
  /\ \E k \in 1..Len(exp.parts) : \E i \in 1..(Len(exp.parts[k]) - 2) :
       SubSeq(exp.parts[k], i, i + 2) = <<"\"", "\n", "\"">>

\* C13: a stream that ends without any batch makes recordBatchesToCSVParts
\* throw, with no part pushed and nothing returned, and only such a stream
\* does; exportCSV then shows the export error and downloads nothing.
C13_NoBatchesNoExport ==
  /\ (exp.pc \in {"returned", "threw"} /\ exp.batches = 0) =>
       /\ exp.pc = "threw"
       /\ exp.parts = <<>>
       /\ exp.returned = NoExport.returned
  /\ (exp.pc = "threw" /\ xp.pc \in {"done", "failed"}) =>
       /\ xp.pc = "failed"
       /\ error = ExportErrorMessage
       /\ downloads = <<>>
       /\ ~exporting

\* exportCSV ended on a stream without batches.
C13_Witness ==
  /\ exp.pc = "threw"
  /\ exp.batches = 0
  /\ xp.pc = "failed"
  /\ error = ExportErrorMessage

\* C25: during an export, once a row has been processed the pending buffer is
\* shorter than the threshold; every chunk pushed by the row loop holds at
\* least threshold characters, so that in the returned list every chunk but
\* possibly the last does; no chunk is empty; and the end of the stream
\* pushes a non-empty remainder as the final chunk and pushes nothing else.
C25_FlushAtThreshold ==
  /\ []((exp.pc \in {"iterating", "inBatch"} /\ exp.rows > 0) =>
          Len(exp.buffer) < exp.flushChars)
  /\ [](\A k \in 1..Len(exp.parts) :
          /\ exp.parts[k] # <<>>
          /\ (k < Len(exp.parts) \/ exp.pc # "returned") =>
               Len(exp.parts[k]) >= exp.flushChars)
  /\ [][(exp.pc # "returned" /\ exp'.pc = "returned") =>
          exp'.parts = IF exp.buffer # <<>> THEN Append(exp.parts, exp.buffer)
                       ELSE exp.parts]_vars

\* An export returned three chunks: two flushed by the row loop at a
\* threshold above one character, the second of exactly threshold length,
\* and a shorter remainder flushed by the end of the stream.
C25_Witness ==
  /\ exp.pc = "returned"
  /\ exp.flushChars = MaxFlush
  /\ Len(exp.returned.parts) = 3
  /\ Len(exp.returned.parts[2]) = exp.flushChars
  /\ Len(exp.returned.parts[3]) < exp.flushChars

\* C26 as stated: an export that returns without error returns at least one
\* chunk.
C26_NeverEmptySuccess ==
  exp.pc = "returned" => exp.returned.parts # <<>>

----------------------------------------------------------------------------
\* What the claims about the engine latch are stated against.

Awaiting(c) == callers[c].pc = "awaitInit"
Finished(c) == callers[c].pc \in {"done", "failed"} /\ callers[c].promise # 0

\* C24: whatever the interleaving of the ensureDbReady, getDuckDB, query and
\* registerFileBuffer calls, at most one initialization is ever started,
\* every caller is handed the promise of that one initialization (and so
\* its database and connection), and an engine call is made only once that
\* initialization has completed.
C24_OneShotLatch ==
  /\ inits <= 1
  /\ \A c \in 1..MaxCallers : callers[c].promise \in {0, inits}
  /\ \A c \in 1..MaxCallers : callers[c].ran => statePromise = "resolved"
  /\ \A c \in 1..MaxCallers :
       (Finished(c) /\ callers[c].pc = "done") => statePromise = "resolved"

\* Three calls overlapped on one initialization: a query that started it has
\* made its engine call, an ensureDbReady and a registerFileBuffer that came
\* while it was pending hold the same promise, the latter still waiting.
C24_Witness ==
  /\ inits = 1
  /\ statePromise = "resolved"
  /\ \E c, d, e \in 1..MaxCallers :
       /\ callers[c].fn = "query" /\ callers[c].found = "null" /\ callers[c].ran
       /\ callers[d].fn = "ensureDbReady" /\ callers[d].found = "pending"
       /\ callers[d].pc = "done" /\ callers[d].promise = 1
       /\ callers[e].fn = "registerFileBuffer" /\ callers[e].found = "pending"
       /\ Awaiting(e) /\ callers[e].promise = 1

\* C30: once the initialization has failed it stays failed and no other is
\* started; every getDuckDB, query and registerFileBuffer call that ends
\* then ends with the rejection of that one initialization, its engine call
\* not made; dbStatus is 'ready' only when the initialization has succeeded,
\* and after a failure it is back to 'idle' as soon as no ensureDbReady is
\* waiting any more.
C30_FailedInitPermanent ==
  /\ [](dbStatus = "ready" => statePromise = "resolved")
  /\ [](statePromise = "rejected" =>
          /\ inits = 1
          /\ \A c \in 1..MaxCallers :
               Finished(c) =>
                 callers[c].pc = "failed" /\ callers[c].promise = 1 /\ ~callers[c].ran
          /\ (\A c \in 1..MaxCallers :
                ~(callers[c].fn = "ensureDbReady" /\ Awaiting(c))) => dbStatus = "idle")
  /\ [][statePromise = "rejected" =>
          statePromise' = "rejected" /\ inits' = inits]_vars

\* The query that started the initialization failed with it; a
\* registerFileBuffer called after the failure has failed on it too, and an
\* ensureDbReady called after the failure has put dbStatus back to 'idle'.
C30_Witness ==
  /\ statePromise = "rejected"
  /\ dbStatus = "idle"
  /\ \E c, d, e \in 1..MaxCallers :
       /\ callers[c].fn = "query" /\ callers[c].found = "null"
       /\ callers[c].pc = "failed"
       /\ callers[d].fn = "registerFileBuffer" /\ callers[d].found = "rejected"
       /\ callers[d].pc = "failed"
       /\ callers[e].fn = "ensureDbReady" /\ callers[e].found = "rejected"
       /\ callers[e].pc = "failed"

----------------------------------------------------------------------------
\* What the claims about the sorted preview are stated against.

\* The cell of the sort column in the k-th row on screen, trimmed.
ShownCell(k) == trim(cellOf(memo.rows[k], sort.col))

\* The rows the sort was given (the filtered rows), and their sort cells.
GivenRows == filteredTable(table, rowSearch).rows
GivenCell(k) == cellOf(GivenRows[k], sort.col)

Sorting == memo.shown /\ sort # NoSort

\* C14 as stated: in the sorted preview, ascending or descending, no row whose
\* sort cell is empty after trimming stands before a row whose sort cell is not.
C14_EmptyLast ==
  Sorting =>
    \A i, j \in 1..Len(memo.rows) :
      (i < j /\ ShownCell(i) = <<>>) => ShownCell(j) = <<>>

\* The cell texts of the table on screen.
TableCells ==
  {table.rows[k][c] : k \in 1..Len(table.rows), c \in 1..Len(table.columns)}

\* C15 as stated: on the cells of the table on screen, compareCells is
\* antisymmetric in sign and transitive.
C15_TotalOrder ==
  memo.shown =>
    /\ \A a, b \in TableCells :
         sign(compareCells(a, b, dateImpl)) = 0 - sign(compareCells(b, a, dateImpl))
    /\ \A a, b, c \in TableCells :
         (compareCells(a, b, dateImpl) <= 0 /\ compareCells(b, c, dateImpl) <= 0)
            => compareCells(a, c, dateImpl) <= 0

\* The numbers the numeric cell texts of the model write, in thousandths.
Thousandths ==
  [s \in {x \in CellTexts : matchesNumeric(trim(x))} |->
     CASE trim(s) = <<"1", ".", "5">> -> 1500
       [] trim(s) = <<"1", ".", "5", "0">> -> 1500
       [] trim(s) = <<"-", "1">> -> 0 - 1000
       [] OTHER -> 1000 * NatOf(trim(s))]

C17_StablePermutation ==
  Sorting =>
    LET n == Len(GivenRows)
        cmp(i, j) == compareCells(GivenCell(i), GivenCell(j), dateImpl)
    IN /\ Len(memo.rows) = n
       /\ memo.order \in Permutations(1..n)
       /\ \A k \in 1..n : memo.rows[k] = GivenRows[memo.order[k]]
       /\ \A i, j \in 1..n :
            (i < j /\ cmp(memo.order[i], memo.order[j]) = 0)
               => memo.order[i] < memo.order[j]
       /\ (sort.dir = "asc" /\ \A i, j \in 1..n : i < j => cmp(i, j) <= 0)
            => memo.order = [k \in 1..n |-> k]

\* The shapes the sort state takes.
SortStates == {NoSort} \cup [col : 0..(MaxCols - 1), dir : {"asc", "desc"}]

\* A step that changes the sort state while a table stays on screen: a
\* column header was activated.
Activated == memo.shown /\ memo'.shown /\ sort' # sort

\* C18: the sort state is none or one (column, direction) pair; activating a
\* column that is not the sort column gives (column, ascending), and activating
\* the sort column again goes from ascending to descending, from descending to
\* unsorted, and from unsorted to ascending.
C18_SortCycle ==
  /\ [](sort \in SortStates)
  /\ [][Activated =>
          \/ /\ sort = NoSort
             /\ sort' # NoSort /\ sort'.dir = "asc"
          \/ /\ sort # NoSort /\ sort' # NoSort
             /\ sort'.col # sort.col /\ sort'.dir = "asc"
          \/ /\ sort # NoSort /\ sort' # NoSort
             /\ sort'.col = sort.col /\ sort.dir = "asc" /\ sort'.dir = "desc"
          \/ /\ sort # NoSort /\ sort.dir = "desc"
             /\ sort' = NoSort]_vars

\* The second column was activated twice in a row, after the first.
C18_Witness ==
  /\ Sorting
  /\ sort = [col |-> 1, dir |-> "desc"]
  /\ Len(memo.rows) = MaxSortRows

\* ---- the tabs

\* C19 as stated: the tab list is never empty.
C19_AtLeastOneTab == Len(tabs) >= 1

\* C20 as stated: activeTabId is the id of a tab of the tab list.
C20_ActiveTabExists == \E k \in 1..Len(tabs) : tabs[k].id = activeTabId

\* C21 as stated: no two tabs of the tab list have the same id.
C21_UniqueIds ==
  \A i, j \in 1..Len(tabs) : tabs[i].id = tabs[j].id => i = j

\* The texts typed into the editor.
EditTexts == {Select2}

\* C22 as stated: a tab just created is not dirty; an edit of the active
\* tab's SQL sets that tab's dirty flag and leaves every other tab as it
\* was; a query run that ends with success leaves the tab it executed not
\* dirty.
C22_DirtyFlags ==
  [][/\ Len(tabs') = Len(tabs) + 1 => ~tabs'[Len(tabs')].isDirty
     /\ (\E sql \in EditTexts : EditSQL(sql)) =>
          \E k \in 1..Len(tabs) :
            /\ tabs[k].id = activeTabId
            /\ tabs'[k].isDirty
            /\ \A j \in 1..Len(tabs) : j # k => tabs'[j] = tabs[j]
     /\ (rq.pc = "formatting" /\ rq'.pc = "done") =>
          \A k \in 1..Len(tabs') :
            tabs'[k].id = rq.activeTabId => ~tabs'[k].isDirty]_vars

\* ---- the operations of the workbench

\* The positions at which a call of each handler is in flight.
QueryInFlight  == rq.pc \in {"awaitInit", "awaitQuery", "formatting"}
ExportInFlight == xp.pc \in {"awaitInit", "awaitSend", "streaming"}
ImportInFlight == imp.pc \in {"awaitInit", "loop", "register", "exec"}
CreateInFlight == ct.pc = "awaitExec"

\* The messages each handler's catch can show.
QueryMessages  == {"init failed", "engine error"}
ExportMessages == {"init failed", "engine error", ExportErrorMessage}
ImportMessages == {"init failed", "read failed", "register failed", "no parquet",
                   "exec failed"}
CreateMessages == {"no parquet", "exec failed"}

\* The steps that start an operation and has it waiting.
OperationStarts ==
  \/ ~running /\ running'
  \/ ~exporting /\ exporting'
  \/ ~loadingFiles /\ loadingFiles'
  \/ ~CreateInFlight /\ CreateInFlight'

\* The steps that end an operation with a failure set error to a message of
\* that operation.
FailureShown ==
  /\ (QueryInFlight /\ rq'.pc = "failed") => error' \in QueryMessages
  /\ (ExportInFlight /\ xp'.pc = "failed") => error' \in ExportMessages
  /\ (ImportInFlight /\ imp'.pc = "failed") => error' \in ImportMessages
  /\ (ct' # ct /\ ct'.pc = "failed") => error' \in CreateMessages

\* C23 as stated: every operation clears the error when it starts, and when
\* an operation ends the error is empty if it succeeded and its failure
\* message if it failed.
C23_OwnOutcome ==
  [][/\ OperationStarts => error' = ""
     /\ FailureShown
     /\ (QueryInFlight /\ rq'.pc = "done") => error' = ""
     /\ (ExportInFlight /\ xp'.pc = "done") => error' = ""
     /\ (ImportInFlight /\ imp'.pc = "done") => error' = ""
     /\ (ct' # ct /\ ct'.pc = "done") => error' = ""]_vars

\* C23: the error is one message or empty; every operation clears it when
\* it starts; an operation that ends with a failure replaces it by a message
\* of its own; an operation that ends with success leaves it as it is, which
\* is empty unless another operation has failed while this one was under way.
C23_LatestOutcome ==
  /\ [](error \in {""} \cup QueryMessages \cup ExportMessages \cup ImportMessages
                     \cup CreateMessages)
  /\ [][/\ OperationStarts => error' = ""
        /\ FailureShown
        /\ (QueryInFlight /\ rq'.pc = "done") => error' = error
        /\ (ExportInFlight /\ xp'.pc = "done") => error' = error
        /\ (ImportInFlight /\ imp'.pc = "done") => error' = error
        /\ (CreateInFlight /\ ct'.pc = "done") => error' = error]_vars

\* A query run is about to end with success, its rows being formatted, while
\* the error shows the failure of an import that overlapped it.
C23_Witness ==
  /\ running /\ rq.pc = "formatting"
  /\ prev.rowIdx >= rowCount(prev.table.numRows, prev.limit)
  /\ imp.pc = "failed" /\ imp.failedAt = "read"
  /\ error = "read failed"

\* C28: a query run that has ended, with success or with a failure at any of
\* its steps, has left running false, an export that has ended has left
\* exporting false and an import that has ended has left loadingFiles
\* false; a flag is true only while its operation is under way.
C28_FlagsReleased ==
  /\ [](/\ running => QueryInFlight
        /\ exporting => ExportInFlight
        /\ loadingFiles => ImportInFlight)
  /\ [][/\ (QueryInFlight /\ ~QueryInFlight') => ~running'
        /\ (ExportInFlight /\ ~ExportInFlight') => ~exporting'
        /\ (ImportInFlight /\ ~ImportInFlight') => ~loadingFiles']_vars

\* A query run failed on the engine, an export ended with its download and
\* an import failed at a registration: none of the three flags is left set.
C28_Witness ==
  /\ rq.pc = "failed" /\ error = "register failed"
  /\ xp.pc = "done" /\ downloads # <<>>
  /\ imp.pc = "failed" /\ imp.failedAt = "register"
  /\ ~running /\ ~exporting /\ ~loadingFiles

\* C29 as stated: running and exporting are never both true, and a query
\* run is under way only while running is true, so that none starts on
\* another.
C29_NoOverlap ==
  /\ ~(running /\ exporting)
  /\ QueryInFlight => running

----------------------------------------------------------------------------
\* Specifications: one per component, the other components at rest.

\* The state after construction: nothing picked, the engine not started, the
\* workbench as App's useState calls set it.
Init ==
  /\ dirName = <<>>
  /\ stack = <<>>
  /\ seen = <<>>
  /\ fileList = <<>>
  /\ cstatus = "idle"
  /\ collected = [files |-> <<>>, meta |-> <<>>]
  /\ statePromise = "null"
  /\ registered = {}
  /\ views = {}
  /\ dbStatus = "idle"
  /\ files = <<>>
  /\ folderName = ""
  /\ parquetTableName = <<>>
  /\ error = ""
  /\ resultInfo = ""
  /\ importInfo = ""
  /\ table = "undefined"
  /\ loadingFiles = FALSE
  /\ imp = NoImport
  /\ ct = NoCreateTable
  /\ doc = <<>>
  /\ call = NoCall
  /\ segments = <<>>
  /\ stmt = <<>>
  /\ prev = NoPreview
  /\ exp = NoExport
  /\ xp = NoExportCSV
  /\ exporting = FALSE
  /\ downloads = <<>>
  /\ lineCells = <<>>
  /\ line = <<>>
  /\ running = FALSE
  /\ sort = NoSort
  /\ rowSearch = <<>>
  /\ memo = NoTable
  /\ rq = NoRunQuery
  /\ dateImpl = "unknown"
  /\ tabs = loadTabsFromStorage(<<>>)
  /\ activeTabId = firstIdOr1(tabs)
  /\ stored = saveTabsToStorage(tabs)
  /\ selectedCategory = "scripts"
  /\ now = 2
  /\ inits = 0
  /\ callers = [c \in 1..MaxCallers |-> NoCaller]

NextCollect ==
  \/ \E name \in RootNames : PickFolder(name) /\ UNCHANGED <<engineVars, appVars, locVars, arrowVars, sortVars, tabVars, exportVars, lineVars>>
  \/ \E name \in FileNames, ok \in BOOLEAN :
       EntryFile(name, ok) /\ UNCHANGED <<engineVars, appVars, locVars, arrowVars, sortVars, tabVars, exportVars, lineVars>>
  \/ \E name \in DirNames : EntryDir(name) /\ UNCHANGED <<engineVars, appVars, locVars, arrowVars, sortVars, tabVars, exportVars, lineVars>>
  \/ \E name \in {NameBCsv} : EntryOther(name) /\ UNCHANGED <<engineVars, appVars, locVars, arrowVars, sortVars, tabVars, exportVars, lineVars>>
  \/ EntriesDone /\ UNCHANGED <<engineVars, appVars, locVars, arrowVars, sortVars, tabVars, exportVars, lineVars>>
  \/ \E name \in FileNames : \E rel \in RelPaths(name) :
       FileListAdd(name, rel) /\ UNCHANGED <<engineVars, appVars, locVars, arrowVars, sortVars, tabVars, exportVars, lineVars>>
  \/ FolderInputChange /\ UNCHANGED <<engineVars, appVars, locVars, arrowVars, sortVars, tabVars, exportVars, lineVars>>

SpecCollect == Init /\ [][NextCollect]_vars

NextImport ==
  \/ \E meta \in Batches, label \in Labels :
       ImportStart(meta, label) /\ UNCHANGED <<collectVars, locVars, arrowVars, sortVars, tabVars, exportVars, lineVars>>
  \/ \E ok \in BOOLEAN : EngineInit(ok) /\ UNCHANGED <<collectVars, locVars, arrowVars, sortVars, tabVars, exportVars, lineVars>>
  \/ ImportInitDone /\ UNCHANGED <<collectVars, locVars, arrowVars, sortVars, tabVars, exportVars, lineVars>>
  \/ \E ok \in BOOLEAN : ImportReadFile(ok) /\ UNCHANGED <<collectVars, locVars, arrowVars, sortVars, tabVars, exportVars, lineVars>>
  \/ \E ok \in BOOLEAN : ImportRegister(ok) /\ UNCHANGED <<collectVars, locVars, arrowVars, sortVars, tabVars, exportVars, lineVars>>
  \/ ImportCommit /\ UNCHANGED <<collectVars, locVars, arrowVars, sortVars, tabVars, exportVars, lineVars>>
  \/ \E ok \in BOOLEAN : ImportExec(ok) /\ UNCHANGED <<collectVars, locVars, arrowVars, sortVars, tabVars, exportVars, lineVars>>
  \/ \E v \in TableNames : SetTableName(v) /\ UNCHANGED <<collectVars, locVars, arrowVars, sortVars, tabVars, exportVars, lineVars>>

SpecImport == Init /\ [][NextImport]_vars

NextLocate ==
  \/ \E c \in LexChars \cup PlainChars :
       TypeChar(c) /\ UNCHANGED <<collectVars, engineVars, appVars, arrowVars, sortVars, tabVars, exportVars, lineVars>>
  \/ \E d \in Examples : PasteDoc(d) /\ UNCHANGED <<collectVars, engineVars, appVars, arrowVars, sortVars, tabVars, exportVars, lineVars>>
  \/ \E position \in -1..Len(doc) + 1 :
       CallStatementAt(position) /\ UNCHANGED <<collectVars, engineVars, appVars, arrowVars, sortVars, tabVars, exportVars, lineVars>>
  \/ \E view \in BOOLEAN : \E from \in 0..Len(doc) : \E to \in from..Len(doc) :
       \E head \in {from, to} :
         CallGetSQL(view, from, to, head)
           /\ UNCHANGED <<collectVars, engineVars, appVars, arrowVars, sortVars, tabVars, exportVars, lineVars>>

SpecLocate == Init /\ [][NextLocate]_vars

NextPreview ==
  \/ \E impl \in DateImpls :
       LoadPage(impl) /\ UNCHANGED <<collectVars, engineVars, appVars, locVars, arrowVars, tabVars, exportVars, lineVars>>
  \/ rq.pc = "idle" /\ RunQueryStart /\ UNCHANGED <<collectVars, locVars, arrowVars, exportVars, lineVars>>
  \/ \E ok \in BOOLEAN :
       EngineInit(ok) /\ UNCHANGED <<collectVars, locVars, arrowVars, sortVars, tabVars, exportVars, lineVars>>
  \/ RunQueryInitDone /\ UNCHANGED <<collectVars, locVars, arrowVars, exportVars, lineVars>>
  \/ RunQueryReject /\ UNCHANGED <<collectVars, locVars, arrowVars, exportVars, lineVars>>
  \/ \E n \in RowCounts, nfields \in 0..MaxCols, seed \in 0..(Len(CellPool) - 1) :
       \E absent \in AbsentSets(nfields) :
         prev.pc = "idle" /\ RunQueryPreview(ArrowTable(n, nfields, absent, seed))
           /\ UNCHANGED <<collectVars, engineVars, appVars, locVars, exp, exportVars, lineVars>>
  \/ \E n \in RowCounts, nfields \in 0..MaxCols, limit \in Limits :
       \E absent \in AbsentSets(nfields) :
         prev.pc = "idle" /\ CallTableToRows("direct", ArrowTable(n, nfields, absent, 0), limit)
           /\ UNCHANGED <<collectVars, engineVars, appVars, locVars, exp, sortVars, tabVars, exportVars, lineVars>>
  \/ ReadRow /\ UNCHANGED <<collectVars, engineVars, appVars, locVars, exp, sortVars, tabVars, exportVars, lineVars>>
  \/ ReturnRows /\ UNCHANGED <<collectVars, engineVars, locVars, exp, exportVars, lineVars>>

SpecPreview == Init /\ [][NextPreview]_vars

NextCSV ==
  \/ \E header \in HeaderOpts, flush \in FlushOpts, nfields \in 1..MaxCols :
       \E seed \in 0..(Len(CellPool) - 1) :
         xp.pc = "idle" /\ exp.pc = "idle"
           /\ CallRecordBatchesToCSVParts(header, flush, nfields, seed)
           /\ UNCHANGED <<collectVars, engineVars, appVars, locVars, prev, sortVars, tabVars, exportVars, lineVars>>
  \/ \E numRows \in 0..MaxBatchRows \cup {PreviewLimit + 1} :
       NextBatch(numRows)
         /\ UNCHANGED <<collectVars, engineVars, appVars, locVars, prev, sortVars, tabVars, exportVars, lineVars>>
  \/ EmitRow /\ UNCHANGED <<collectVars, engineVars, appVars, locVars, prev, sortVars, tabVars, exportVars, lineVars>>
  \/ StreamEnd /\ UNCHANGED <<collectVars, engineVars, appVars, locVars, prev, sortVars, tabVars, exportVars, lineVars>>
  \/ xp.pc = "idle" /\ exp.pc = "idle" /\ ExportCSVStart
       /\ UNCHANGED <<collectVars, locVars, prev, sortVars, tabVars, lineVars>>
  \/ \E ok \in BOOLEAN :
       EngineInit(ok) /\ UNCHANGED <<collectVars, locVars, arrowVars, sortVars, tabVars, exportVars, lineVars>>
  \/ ExportInitDone /\ UNCHANGED <<collectVars, locVars, prev, sortVars, tabVars, lineVars>>
  \/ \E ok \in BOOLEAN, nfields \in 1..MaxCols, seed \in 0..(Len(CellPool) - 1) :
       ExportSend(ok, nfields, seed) /\ UNCHANGED <<collectVars, locVars, prev, sortVars, tabVars, lineVars>>
  \/ ExportCSVResume /\ UNCHANGED <<collectVars, locVars, prev, sortVars, tabVars, lineVars>>

SpecCSV == Init /\ [][NextCSV]_vars

NextLine ==
  \/ NewCell /\ UNCHANGED <<collectVars, engineVars, appVars, locVars, arrowVars, sortVars, tabVars, exportVars>>
  \/ \E c \in CsvChars :
       CellChar(c) /\ UNCHANGED <<collectVars, engineVars, appVars, locVars, arrowVars, sortVars, tabVars, exportVars>>
  \/ CallCsvLine /\ UNCHANGED <<collectVars, engineVars, appVars, locVars, arrowVars, sortVars, tabVars, exportVars>>

SpecLine == Init /\ [][NextLine]_vars

NextSort ==
  \/ \E impl \in DateImpls :
       LoadPage(impl) /\ UNCHANGED <<collectVars, engineVars, appVars, locVars, arrowVars, tabVars, exportVars, lineVars>>
  \/ rq.pc = "idle" /\ RunQueryStart /\ UNCHANGED <<collectVars, locVars, arrowVars, exportVars, lineVars>>
  \/ \E ok \in BOOLEAN :
       EngineInit(ok) /\ UNCHANGED <<collectVars, locVars, arrowVars, sortVars, tabVars, exportVars, lineVars>>
  \/ RunQueryInitDone /\ UNCHANGED <<collectVars, locVars, arrowVars, exportVars, lineVars>>
  \/ RunQueryReject /\ UNCHANGED <<collectVars, locVars, arrowVars, exportVars, lineVars>>
  \/ /\ rq.pc = "awaitQuery"
     /\ \E texts \in SortTables : RunQueryPreview(ArrowTableOf(texts))
     /\ UNCHANGED <<collectVars, engineVars, appVars, locVars, exp, exportVars, lineVars>>
  \/ ReadRow /\ UNCHANGED <<collectVars, engineVars, appVars, locVars, exp, sortVars, tabVars, exportVars, lineVars>>
  \/ ReturnRows /\ UNCHANGED <<collectVars, engineVars, locVars, exp, exportVars, lineVars>>
  \/ \E col \in 0..(MaxCols - 1) :
       ToggleSort(col) /\ UNCHANGED <<collectVars, engineVars, appVars, locVars, arrowVars, tabVars, exportVars, lineVars>>
  \/ \E value \in RowSearches :
       SetRowSearch(value) /\ UNCHANGED <<collectVars, engineVars, appVars, locVars, arrowVars, tabVars, exportVars, lineVars>>
  \/ ResetSQL /\ UNCHANGED <<collectVars, engineVars, locVars, arrowVars, exportVars, lineVars>>

SpecSort == Init /\ [][NextSort]_vars

NextTabs ==
  \/ \E t \in Times :
       ClockReads(t) /\ UNCHANGED <<collectVars, engineVars, appVars, locVars, arrowVars, sortVars, exportVars, lineVars>>
  \/ \E category \in Categories :
       SetSelectedCategory(category) /\ UNCHANGED <<collectVars, engineVars, appVars, locVars, arrowVars, sortVars, exportVars, lineVars>>
  \/ ClickNewTab /\ UNCHANGED <<collectVars, engineVars, appVars, locVars, arrowVars, sortVars, exportVars, lineVars>>
  \/ \E name \in DOMAIN TEMPLATE_QUERIES :
       ClickTemplate(name) /\ UNCHANGED <<collectVars, engineVars, appVars, locVars, arrowVars, sortVars, exportVars, lineVars>>
  \/ \E tabId \in {1} \cup Times :
       closeTab(tabId) /\ UNCHANGED <<collectVars, engineVars, appVars, locVars, arrowVars, sortVars, exportVars, lineVars>>
  \/ \E tabId \in {1} \cup Times :
       ClickTab(tabId) /\ UNCHANGED <<collectVars, engineVars, appVars, locVars, arrowVars, sortVars, exportVars, lineVars>>
  \/ \E sql \in {Select2} :
       EditSQL(sql) /\ UNCHANGED <<collectVars, engineVars, appVars, locVars, arrowVars, sortVars, exportVars, lineVars>>
  \/ Reload /\ UNCHANGED <<collectVars, engineVars, appVars, locVars, arrowVars, sortVars, exportVars, lineVars>>

SpecTabs == Init /\ [][NextTabs]_vars

NextEngine ==
  \/ \E c \in 1..MaxCallers, fn \in EngineCalls :
       CallEngine(c, fn) /\ UNCHANGED <<collectVars, locVars, arrowVars, sortVars, tabVars, exportVars, lineVars>>
  \/ \E c \in 1..MaxCallers :
       HandlerEntered(c) /\ UNCHANGED <<collectVars, locVars, arrowVars, sortVars, tabVars, exportVars, lineVars>>
  \/ \E c \in 1..MaxCallers :
       CallEnsureDbReady(c) /\ UNCHANGED <<collectVars, locVars, arrowVars, sortVars, tabVars, exportVars, lineVars>>
  \/ \E ok \in BOOLEAN :
       EngineInit(ok) /\ UNCHANGED <<collectVars, locVars, arrowVars, sortVars, tabVars, exportVars, lineVars>>
  \/ \E c \in 1..MaxCallers :
       CallerResumes(c) /\ UNCHANGED <<collectVars, locVars, arrowVars, sortVars, tabVars, exportVars, lineVars>>

SpecEngine == Init /\ [][NextEngine]_vars

\* The operations of the workbench side by side: query runs from the button
\* and from the key binding, exports, imports and table creations, on small
\* results.
OpsBatches == { <<[path |-> PathAParquet, size |-> 1, type |-> "file"]>> }

NextOps ==
  \/ LoadPage("strict") /\ UNCHANGED <<collectVars, engineVars, appVars, locVars, arrowVars, tabVars, exportVars, lineVars>>
  \/ RunQueryStart /\ UNCHANGED <<collectVars, locVars, arrowVars, exportVars, lineVars>>
  \/ ModEnter /\ UNCHANGED <<collectVars, locVars, arrowVars, exportVars, lineVars>>
  \/ \E ok \in BOOLEAN :
       EngineInit(ok) /\ UNCHANGED <<collectVars, locVars, arrowVars, sortVars, tabVars, exportVars, lineVars>>
  \/ RunQueryInitDone /\ UNCHANGED <<collectVars, locVars, arrowVars, exportVars, lineVars>>
  \/ RunQueryReject /\ UNCHANGED <<collectVars, locVars, arrowVars, exportVars, lineVars>>
  \/ \E n \in {1} :
       RunQueryPreview(ArrowTable(n, 1, {}, 0))
         /\ UNCHANGED <<collectVars, engineVars, appVars, locVars, exp, exportVars, lineVars>>
  \/ ReadRow /\ UNCHANGED <<collectVars, engineVars, appVars, locVars, exp, sortVars, tabVars, exportVars, lineVars>>
  \/ ReturnRows /\ UNCHANGED <<collectVars, engineVars, locVars, exp, exportVars, lineVars>>
  \/ downloads = <<>> /\ ExportCSVStart
       /\ UNCHANGED <<collectVars, locVars, prev, sortVars, tabVars, lineVars>>
  \/ ExportInitDone /\ UNCHANGED <<collectVars, locVars, prev, sortVars, tabVars, lineVars>>
  \/ \E ok \in BOOLEAN :
       ExportSend(ok, 1, 0) /\ UNCHANGED <<collectVars, locVars, prev, sortVars, tabVars, lineVars>>
  \/ \E numRows \in {1} :
       xp.pc = "streaming" /\ exp.batches = 0 /\ NextBatch(numRows)
         /\ UNCHANGED <<collectVars, engineVars, appVars, locVars, prev, sortVars, tabVars, exportVars, lineVars>>
  \/ xp.pc = "streaming" /\ EmitRow
       /\ UNCHANGED <<collectVars, engineVars, appVars, locVars, prev, sortVars, tabVars, exportVars, lineVars>>
  \/ xp.pc = "streaming" /\ StreamEnd
       /\ UNCHANGED <<collectVars, engineVars, appVars, locVars, prev, sortVars, tabVars, exportVars, lineVars>>
  \/ ExportCSVResume /\ UNCHANGED <<collectVars, locVars, prev, sortVars, tabVars, lineVars>>
  \/ \E meta \in OpsBatches :
       ImportStart(meta, "d") /\ UNCHANGED <<collectVars, locVars, arrowVars, sortVars, tabVars, exportVars, lineVars>>
  \/ ImportInitDone /\ UNCHANGED <<collectVars, locVars, arrowVars, sortVars, tabVars, exportVars, lineVars>>
  \/ \E ok \in BOOLEAN : ImportReadFile(ok) /\ UNCHANGED <<collectVars, locVars, arrowVars, sortVars, tabVars, exportVars, lineVars>>
  \/ \E ok \in BOOLEAN : ImportRegister(ok) /\ UNCHANGED <<collectVars, locVars, arrowVars, sortVars, tabVars, exportVars, lineVars>>
  \/ ImportCommit /\ UNCHANGED <<collectVars, locVars, arrowVars, sortVars, tabVars, exportVars, lineVars>>
  \/ \E ok \in BOOLEAN : ImportExec(ok) /\ UNCHANGED <<collectVars, locVars, arrowVars, sortVars, tabVars, exportVars, lineVars>>
  \/ \E v \in {<<"t">>} :
       SetTableName(v) /\ UNCHANGED <<collectVars, locVars, arrowVars, sortVars, tabVars, exportVars, lineVars>>
  \/ ct.pc # "awaitExec" /\ CreateTableStart
       /\ UNCHANGED <<collectVars, locVars, arrowVars, sortVars, tabVars, exportVars, lineVars>>
  \/ \E ok \in BOOLEAN :
       CreateTableExec(ok) /\ UNCHANGED <<collectVars, locVars, arrowVars, sortVars, tabVars, exportVars, lineVars>>

SpecOps == Init /\ [][NextOps]_vars

\* The tabs and the query run side by side: tabs are created, selected and
\* edited while queries run on a one-row result.
NextEdit ==
  \/ LoadPage("strict") /\ UNCHANGED <<collectVars, engineVars, appVars, locVars, arrowVars, tabVars, exportVars, lineVars>>
  \/ \E t \in Times :
       ClockReads(t) /\ UNCHANGED <<collectVars, engineVars, appVars, locVars, arrowVars, sortVars, exportVars, lineVars>>
  \/ ClickNewTab /\ UNCHANGED <<collectVars, engineVars, appVars, locVars, arrowVars, sortVars, exportVars, lineVars>>
  \/ \E tabId \in {1} \cup Times :
       ClickTab(tabId) /\ UNCHANGED <<collectVars, engineVars, appVars, locVars, arrowVars, sortVars, exportVars, lineVars>>
  \/ \E tabId \in {1} \cup Times :
       closeTab(tabId) /\ UNCHANGED <<collectVars, engineVars, appVars, locVars, arrowVars, sortVars, exportVars, lineVars>>
  \/ \E sql \in EditTexts :
       EditSQL(sql) /\ UNCHANGED <<collectVars, engineVars, appVars, locVars, arrowVars, sortVars, exportVars, lineVars>>
  \/ RunQueryStart /\ UNCHANGED <<collectVars, locVars, arrowVars, exportVars, lineVars>>
  \/ \E ok \in BOOLEAN :
       EngineInit(ok) /\ UNCHANGED <<collectVars, locVars, arrowVars, sortVars, tabVars, exportVars, lineVars>>
  \/ RunQueryInitDone /\ UNCHANGED <<collectVars, locVars, arrowVars, exportVars, lineVars>>
  \/ RunQueryReject /\ UNCHANGED <<collectVars, locVars, arrowVars, exportVars, lineVars>>
  \/ RunQueryPreview(ArrowTable(1, 1, {}, 0))
       /\ UNCHANGED <<collectVars, engineVars, appVars, locVars, exp, exportVars, lineVars>>
  \/ ReadRow /\ UNCHANGED <<collectVars, engineVars, appVars, locVars, exp, sortVars, tabVars, exportVars, lineVars>>
  \/ ReturnRows /\ UNCHANGED <<collectVars, engineVars, locVars, exp, exportVars, lineVars>>

SpecEdit == Init /\ [][NextEdit]_vars

====
